---- MODULE Spec2Model ----
(***************************************************************************)
(* Model of the equity-aware EV charger planning code (rttri/PoWER):       *)
(*   src/opt/ev_opt.py      EV_Opt: model builder and solve orchestration  *)
(*   src/opt/ev_opt_run.py  batch sweep over the parameter product         *)
(*   src/opt/ev_eval.py     EVChargerEquityEvaluation                      *)
(*   src/opt/data_process.py  work_popu_LODES / VKT matrix                 *)
(* Real-valued quantities are exact rationals <<numerator, denominator>>.  *)
(***************************************************************************)
EXTENDS Integers, Sequences, FiniteSets, TLC

(***************************************************************************)
(* Bounds of the model                                                     *)
(***************************************************************************)
\* largest budget (max_add_capacity) a caller passes; x is searched on the
\* integer grid XLow..MaxBudget
MaxBudget == 2
\* extra amount by which a free auxiliary variable may exceed its lower bound
MaxSlack == 1

\* candidate values below the default lower bound of a solver variable
XLow == 0 - 1
\* denominator of the weights: multi_obj_setting = np.linspace(0, 10, 11) / 10
WDen == 10

(***************************************************************************)
(* Exact rational arithmetic                                               *)
(***************************************************************************)
\* The operators below bind their arguments with a one-element set
\* ({e : v \in {arg}}) so that an argument is evaluated exactly once.
Abs(a) == IF a < 0 THEN 0 - a ELSE a

RECURSIVE GCD(_, _)
GCD(a0, b0) ==
    CHOOSE r \in {IF b = 0 THEN a ELSE GCD(b, a % b) : a \in {a0}, b \in {b0}} : TRUE

\* the rational n/d (d # 0) in lowest terms with a positive denominator
Rat(n0, d0) ==
    CHOOSE r \in {<<((IF d < 0 THEN 0 - n ELSE n)) \div g, Abs(d) \div g>> :
                    n \in {n0}, d \in {d0}, g \in {GCD(Abs(n0), Abs(d0))}} : TRUE

RInt(n) == <<n, 1>>
RZero == <<0, 1>>
\* sums go through the least common denominator, products cancel crosswise
\* first, so that intermediate integers stay small
RAdd(p0, q0) ==
    CHOOSE r \in {Rat(p[1] * (q[2] \div g) + q[1] * (p[2] \div g), (p[2] \div g) * q[2]) :
                    p \in {p0}, q \in {q0}, g \in {GCD(p0[2], q0[2])}} : TRUE
RNeg(p0) == CHOOSE r \in {<<0 - p[1], p[2]>> : p \in {p0}} : TRUE
RSub(p0, q0) == RAdd(p0, RNeg(q0))
RMul(p0, q0) ==
    CHOOSE r \in {Rat((p[1] \div g1) * (q[1] \div g2), (p[2] \div g2) * (q[2] \div g1)) :
                    p \in {p0}, q \in {q0},
                    g1 \in {GCD(Abs(p0[1]), q0[2])}, g2 \in {GCD(Abs(q0[1]), p0[2])}} : TRUE
\* q0 # 0
RDiv(p0, q0) ==
    CHOOSE r \in {RMul(p, IF q[1] < 0 THEN <<0 - q[2], 0 - q[1]>> ELSE <<q[2], q[1]>>) :
                    p \in {p0}, q \in {q0}} : TRUE
\* a/b <= c/d for b, d > 0, by comparing the integer parts and then the
\* reciprocals of the fractional parts: no product is formed
RECURSIVE FracLe(_, _, _, _)
FracLe(a0, b0, c0, d0) ==
    \E a \in {a0}, b \in {b0}, c \in {c0}, d \in {d0} :
        IF a \div b # c \div d THEN a \div b < c \div d
        ELSE IF a % b = 0 THEN TRUE
        ELSE IF c % d = 0 THEN FALSE
        ELSE FracLe(d, c % d, b, a % b)
RLe(p0, q0) == \E p \in {p0}, q \in {q0} : FracLe(p[1], p[2], q[1], q[2])
RLt(p0, q0) == \E p \in {p0}, q \in {q0} : ~FracLe(q[1], q[2], p[1], p[2])
RAbs(p0) == CHOOSE r \in {<<Abs(p[1]), p[2]>> : p \in {p0}} : TRUE

\* sum of s[lo..hi], by halves
RECURSIVE RSumRange(_, _, _)
RSumRange(s, lo, hi) ==
    IF lo > hi THEN RZero
    ELSE IF lo = hi THEN s[lo]
    ELSE RAdd(RSumRange(s, lo, (lo + hi) \div 2), RSumRange(s, ((lo + hi) \div 2) + 1, hi))
\* sum of a sequence of rationals
RSum(s0) == CHOOSE r \in {RSumRange(s, 1, Len(s)) : s \in {s0}} : TRUE

\* sum of s[lo..hi], by halves
RECURSIVE ISumRange(_, _, _)
ISumRange(s, lo, hi) ==
    IF lo > hi THEN 0
    ELSE IF lo = hi THEN s[lo]
    ELSE ISumRange(s, lo, (lo + hi) \div 2) + ISumRange(s, ((lo + hi) \div 2) + 1, hi)
\* sum of a sequence of integers
ISum(s0) == CHOOSE r \in {ISumRange(s, 1, Len(s)) : s \in {s0}} : TRUE

\* np.mean of a nonempty vector
RMean(v0) == CHOOSE r \in {RDiv(RSum(v), RInt(Len(v))) : v \in {v0}} : TRUE

\* subsequence of s at the positions idx (a sequence of indices)
Pick(s, idx) == [k \in 1..Len(idx) |-> s[idx[k]]]

(***************************************************************************)
(* Input tables.  A data set is what DataProcessor.process_demo_data       *)
(* returns: the zone table df1, the commute flow matrix df2 (rows =        *)
(* residence zone, columns = workplace zone) and the VKT matrix df3.       *)
(***************************************************************************)
DemoAttributes == {"income_level", "mud_level", "employment_level", "major_ethnicity"}

\* the scenario of the specification scaled by 1/50: populations 2,4,2,
\* existing capacities 1,0,1, every worker commutes inside the own zone
RawA ==
    [popu |-> <<2, 4, 2>>, veh_num |-> <<1, 2, 1>>,
     char_capacity_home |-> <<1, 0, 0>>, char_capacity_not_home |-> <<0, 0, 1>>,
     char_num_home |-> <<1, 0, 0>>, char_num_not_home |-> <<0, 0, 2>>,
     flow |-> <<<<2, 0, 0>>, <<0, 4, 0>>, <<0, 0, 2>>>>,
     dist |-> <<<<1, 2, 2>>, <<2, 1, 2>>, <<2, 2, 1>>>>,
     income_level |-> <<1, 2, 1>>, mud_level |-> <<1, 1, 2>>,
     employment_level |-> <<1, 1, 1>>, major_ethnicity |-> <<3, 1, 2>>]

\* asymmetric commuting, unequal populations and unequal ratios
RawB ==
    [popu |-> <<1, 2, 4>>, veh_num |-> <<1, 2, 2>>,
     char_capacity_home |-> <<0, 2, 0>>, char_capacity_not_home |-> <<0, 3, 2>>,
     char_num_home |-> <<0, 1, 0>>, char_num_not_home |-> <<0, 2, 1>>,
     flow |-> <<<<1, 1, 0>>, <<0, 3, 2>>, <<1, 0, 0>>>>,
     dist |-> <<<<2, 2, 1>>, <<1, 2, 1>>, <<1, 1, 1>>>>,
     income_level |-> <<1, 1, 1>>, mud_level |-> <<1, 2, 2>>,
     employment_level |-> <<2, 1, 2>>, major_ethnicity |-> <<1, 2, 3>>]

\* two zones without any existing charger
RawC ==
    [popu |-> <<1, 2>>, veh_num |-> <<1, 1>>,
     char_capacity_home |-> <<0, 0>>, char_capacity_not_home |-> <<0, 0>>,
     char_num_home |-> <<0, 0>>, char_num_not_home |-> <<0, 0>>,
     flow |-> <<<<1, 0>>, <<1, 2>>>>,
     dist |-> <<<<1, 1>>, <<2, 1>>>>,
     income_level |-> <<1, 2>>, mud_level |-> <<1, 1>>,
     employment_level |-> <<2, 1>>, major_ethnicity |-> <<2, 1>>]

RawDataSets == {RawA, RawB, RawC}

\* df.sum(axis=0): column sums of a square matrix
ColSums(mat) == [j \in 1..Len(mat) |-> ISum([i \in 1..Len(mat) |-> mat[i][j]])]
\* df.sum(axis=1): row sums
RowSums(mat) == [i \in 1..Len(mat) |-> ISum(mat[i])]

\* work_popu_LODES = work_flow_mat.values.sum(axis=0)
WorkPopuLODES(flow) == ColSums(flow)

\* vmt_matrix = dist_matrix_km.values * work_flow_mat.values (element-wise)
VmtMatrix(dist, flow) ==
    [i \in 1..Len(flow) |-> [j \in 1..Len(flow) |-> dist[i][j] * flow[i][j]]]

\* process_demo_data: (demo_data, work_flow_mat, vmt_matrix)
ProcessDemoData(raw) ==
    [df1 |-> [popu |-> raw.popu, veh_num |-> raw.veh_num,
              char_capacity_home |-> raw.char_capacity_home,
              char_capacity_not_home |-> raw.char_capacity_not_home,
              char_num_home |-> raw.char_num_home,
              char_num_not_home |-> raw.char_num_not_home,
              income_level |-> raw.income_level, mud_level |-> raw.mud_level,
              employment_level |-> raw.employment_level,
              major_ethnicity |-> raw.major_ethnicity,
              work_popu_LODES |-> WorkPopuLODES(raw.flow)],
     df2 |-> raw.flow,
     df3 |-> VmtMatrix(raw.dist, raw.flow)]

\* column of df1 holding the labels of a demographic attribute
LabelsOf(df1, attr) ==
    CASE attr = "income_level" -> df1.income_level
      [] attr = "mud_level" -> df1.mud_level
      [] attr = "employment_level" -> df1.employment_level
      [] attr = "major_ethnicity" -> df1.major_ethnicity

(***************************************************************************)
(* EV_Opt.__init__: the attributes of the optimizer object                 *)
(***************************************************************************)
EV_Opt_init(data, output_dir, exclusivity_factor) ==
    [df1 |-> data.df1,
     exclusivity_factor |-> exclusivity_factor,
     work_popu |-> data.df1.work_popu_LODES,
     n_trip_ij |-> data.df2,
     popu_ct |-> data.df1.popu,
     num_of_veh_ct |-> data.df1.veh_num,
     n_ct |-> Len(data.df2),
     output_dir |-> output_dir,
     total_char_capacity |->
        [i \in 1..Len(data.df2) |->
            data.df1.char_capacity_not_home[i] + data.df1.char_capacity_home[i]],
     VKT_flow_out_km |-> RowSums(data.df3)]


(***************************************************************************)
(* Argument names                                                          *)
(***************************************************************************)
\* the indicators compute_xi_val / compute_group_val dispatch on
OptIndicators ==
    {"char_capacity_per_capita", "char_capacity_per_car", "char_capacity_per_VKT_out"}

\* names disparity_fn dispatches on
IndexNames ==
    {"var", "coeff_of_var", "mean_abs_dev", "relative_mean_abs_dev", "gini_coefficient"}

None == [kind |-> "None"]

(***************************************************************************)
(* The solver model object (gp.Model): its variables in the order they     *)
(* were added, its constraints, its objective and parameters.  A variable  *)
(* name <<f, i>> stands for "f[i]", <<f>> for "f", and <<"C", k>> for the  *)
(* default name of the unnamed k-th column.                                *)
(***************************************************************************)
NoModel == [exists |-> FALSE, vars |-> <<>>, constrs |-> <<>>,
            objective |-> None, NonConvex |-> FALSE]

\* gp.Model("charger_planning")
gp_Model == [exists |-> TRUE, vars |-> <<>>, constrs |-> <<>>,
             objective |-> None, NonConvex |-> FALSE]

\* m.addVars(n, name=...)
addVars(m, n, name) ==
    [m EXCEPT !.vars = @ \o [k \in 1..n |-> <<name, k - 1>>]]

\* m.addVars(n, n, name=...): row-major order of the index pairs
addVars2(m, n, name) ==
    [m EXCEPT !.vars = @ \o [k \in 1..(n * n) |-> <<name, (k - 1) \div n, (k - 1) % n>>]]

\* m.addVar(name=...)
addVar(m, name) == [m EXCEPT !.vars = Append(@, <<name>>)]

\* m.addVar() without a name: the solver names the column after its position
addVarUnnamed(m) == [m EXCEPT !.vars = Append(@, <<"C", Len(m.vars)>>)]

\* m.addConstrs(... for i in range(n), name=...)
addConstrs(m, n, name) ==
    [m EXCEPT !.constrs = @ \o [k \in 1..n |-> <<name, k - 1>>]]

\* m.addConstr(..., name=...)
addConstr(m, name) == [m EXCEPT !.constrs = Append(@, <<name>>)]

\* result of a builder step: the model as left behind and the exception raised
Ok(m) == [m |-> m, exc |-> "none"]
Raise(m, e) == [m |-> m, exc |-> e]

(***************************************************************************)
(* EV_Opt.compute_xi_val (structure): one defining constraint per zone     *)
(***************************************************************************)
compute_xi_val(o, m, equity_indicator) ==
    IF equity_indicator = "char_capacity_per_capita"
    THEN Ok(addConstrs(m, o.n_ct, "char_capacity_per_capita_each_ct"))
    ELSE IF equity_indicator = "char_capacity_per_car"
    THEN Ok(addConstrs(m, o.n_ct, "char_capacity_per_car_each_ct"))
    ELSE IF equity_indicator = "char_capacity_per_VKT_out"
    THEN Ok(addConstrs(m, o.n_ct, "char_capacity_per_VKT_out_each_ct"))
    ELSE Raise(m, "ValueError")

(***************************************************************************)
(* demo_category_list: for item in df1[attr].unique(): index of the rows   *)
(* with that label.  unique() keeps the order of first appearance.         *)
(***************************************************************************)
RECURSIVE Unique(_)
Unique(labels) ==
    IF labels = <<>> THEN <<>>
    ELSE CHOOSE r \in
            {IF \E k \in 1..Len(front) : front[k] = labels[Len(labels)]
             THEN front ELSE Append(front, labels[Len(labels)]) :
               front \in {Unique(SubSeq(labels, 1, Len(labels) - 1))}} : TRUE

\* the zones (ascending) whose label is item
RECURSIVE IndexOf(_, _, _)
IndexOf(labels, item, k) ==
    IF k > Len(labels) THEN <<>>
    ELSE IF labels[k] = item
         THEN <<k>> \o IndexOf(labels, item, k + 1)
         ELSE IndexOf(labels, item, k + 1)

\* variant: one index set per zone, without unique()
demo_category_list_PerZone(df1, demographic_group) ==
    CHOOSE r \in
        {[g \in 1..Len(items) |-> IndexOf(items, items[g], 1)] :
           items \in {LabelsOf(df1, demographic_group)}} : TRUE

demo_category_list(df1, demographic_group) ==
    CHOOSE r \in
        {[g \in 1..Len(items) |-> IndexOf(LabelsOf(df1, demographic_group), items[g], 1)] :
           items \in {Unique(LabelsOf(df1, demographic_group))}} : TRUE


\* m.addConstrs(... for i in range(n) for j in range(n), name=...)
addConstrs2(m, n, name) ==
    [m EXCEPT !.constrs = @ \o [k \in 1..(n * n) |-> <<name, (k - 1) \div n, (k - 1) % n>>]]

\* m.addConstr(...) without a name: the solver names the row after its position
addConstrUnnamed(m) == [m EXCEPT !.constrs = Append(@, <<"R", Len(m.constrs)>>)]

(***************************************************************************)
(* EV_Opt.compute_group_val (structure)                                    *)
(***************************************************************************)
compute_group_val(o, m, equity_indicator, demographic_group) ==
    IF demographic_group \notin DemoAttributes
    THEN Raise(m, "ValueError")
    ELSE LET n_group == Len(demo_category_list(o.df1, demographic_group))
             m1 == addVars(m, n_group, "indicator_group_value")
         IN  IF equity_indicator \in OptIndicators
             THEN Ok(addConstrs(m1, n_group, "demographic_group_value"))
             ELSE Raise(m1, "ValueError")

(***************************************************************************)
(* The linearisations (structure): variables and constraints each adds for *)
(* a vector of length n                                                    *)
(***************************************************************************)
\* EV_Opt.variance: a quadratic expression, nothing is added to the model
variance(m, n) == m

\* EV_Opt.coeff_of_var
coeff_of_var(m, n) ==
    LET m1 == addVar(addVar(addVar(m, "aux1"), "aux2"), "aux3")
        m2 == addConstr(addConstr(addConstr(m1, "auxiliary_1"), "auxiliary_2"), "auxiliary_3")
    IN  [m2 EXCEPT !.NonConvex = TRUE]

\* EV_Opt.mean_abs_dev
mean_abs_dev(m, n) ==
    addConstrs(addConstrs(addVars(m, n, "auxiliary"), n, "auxiliary_positive"),
               n, "auxiliary_negative")

\* EV_Opt.gini_equity_index
gini_equity_index(m, n) ==
    LET m1 == addVar(addVars2(m, n, "aux1"), "aux2_1_over_sum")
        m2 == addConstr(m1, "auxiliary_2_over_sum")
        m3 == addConstrs2(addConstrs2(m2, n, "auxiliary_positive"), n, "auxiliary_negative")
    IN  [m3 EXCEPT !.NonConvex = TRUE]

\* EV_Opt.relative_mean_abs_dev
relative_mean_abs_dev(m, n) ==
    LET m1 == addVarUnnamed(addVar(addVars(m, n, "aux1_abs"), "aux2_mean"))
        m2 == addConstrs(addConstrs(m1, n, "auxiliary_positive"), n, "auxiliary_negative")
        m3 == addConstr(addConstr(m2, "auxiliary_mean"), "objective_constraint")
    IN  [m3 EXCEPT !.NonConvex = TRUE]

\* variant: an unknown name silently falls back to mean_abs_dev
disparity_fn_Default(m, n, disparity_index) ==
    IF disparity_index = "var" THEN Ok(variance(m, n))
    ELSE IF disparity_index = "coeff_of_var" THEN Ok(coeff_of_var(m, n))
    ELSE IF disparity_index = "relative_mean_abs_dev" THEN Ok(relative_mean_abs_dev(m, n))
    ELSE IF disparity_index = "gini_coefficient" THEN Ok(gini_equity_index(m, n))
    ELSE Ok(mean_abs_dev(m, n))

(***************************************************************************)
(* EV_Opt.disparity_fn: dispatch on the index name                         *)
(***************************************************************************)
disparity_fn(m, n, disparity_index) ==
    IF disparity_index = "var" THEN Ok(variance(m, n))
    ELSE IF disparity_index = "coeff_of_var" THEN Ok(coeff_of_var(m, n))
    ELSE IF disparity_index = "mean_abs_dev" THEN Ok(mean_abs_dev(m, n))
    ELSE IF disparity_index = "relative_mean_abs_dev" THEN Ok(relative_mean_abs_dev(m, n))
    ELSE IF disparity_index = "gini_coefficient" THEN Ok(gini_equity_index(m, n))
    ELSE Raise(m, "ValueError")

(***************************************************************************)
(* EV_Opt.get_within_disparity_objective (structure)                       *)
(***************************************************************************)
\* for k in range(n_group): disparity_fn on the group's xi, then one constraint
RECURSIVE WithinLoop(_, _, _, _)
WithinLoop(m, val_group, k, disparity_index) ==
    IF k > Len(val_group) THEN Ok(m)
    ELSE LET r == disparity_fn(m, Len(val_group[k]), disparity_index)
         IN  IF r.exc # "none" THEN r
             ELSE WithinLoop(addConstrUnnamed(r.m), val_group, k + 1, disparity_index)

get_within_disparity_objective(o, m, demographic_group, disparity_index) ==
    IF demographic_group \notin DemoAttributes
    THEN Raise(m, "ValueError")
    ELSE LET val_group == demo_category_list(o.df1, demographic_group)
             m1 == addVars(m, Len(val_group), "within_group_disparity")
         IN  WithinLoop(m1, val_group, 1, disparity_index)

(***************************************************************************)
(* The weight: a Python number, float or int, in units of 1/WDen           *)
(***************************************************************************)
\* assert isinstance(w, float); assert 0 <= w <= 1
WeightAsserts(w) == w.float /\ 0 <= w.num /\ w.num <= WDen

\* variant: the two weights exchanged
tot_weighted_obj_Swapped(w) ==
    [between |-> Rat(WDen - w.num, WDen), within |-> Rat(w.num, WDen)]

\* obj_val_between * w + obj_val_within * (1 - w): the two coefficients
tot_weighted_obj(w) == [between |-> Rat(w.num, WDen), within |-> Rat(WDen - w.num, WDen)]

(***************************************************************************)
(* EV_Opt.get_equity_objective (structure)                                 *)
(***************************************************************************)
get_equity_objective(o, m, disparity_index, demographic_group, multi_obj_bet_weight) ==
    LET m1 == addVar(addVar(m, "obj_val_between"), "obj_val_within")
        n_group == Len(demo_category_list(o.df1, demographic_group))
        r1 == disparity_fn(m1, n_group, disparity_index)
    IN  IF r1.exc # "none" THEN r1
        ELSE LET r2 == get_within_disparity_objective(o, addConstrUnnamed(r1.m),
                                                      demographic_group, disparity_index)
             IN  IF r2.exc # "none" THEN r2
                 ELSE LET m3 == addConstrUnnamed(r2.m)
                      IN  IF ~WeightAsserts(multi_obj_bet_weight)
                          THEN Raise(m3, "AssertionError")
                          ELSE Ok([m3 EXCEPT !.objective =
                                      tot_weighted_obj(multi_obj_bet_weight)])


(***************************************************************************)
(* Values the constraints define.  x is the vector of added capacities.    *)
(***************************************************************************)
\* variant: the flow matrix read as n_trip_ij[j, i]
CharEq_Transposed(o, x) ==
    [i \in 1..o.n_ct |->
        RAdd(RInt(o.total_char_capacity[i]),
             RMul(RSum([j \in 1..o.n_ct |-> Rat(x[j] * o.n_trip_ij[j][i], o.work_popu[j])]),
                  RSub(RInt(1), o.exclusivity_factor)))]

\* char_eq[i] == total_char_capacity[i]
\*     + quicksum(x[j] * n_trip_ij[i, j] / work_popu[j]) * (1 - exclusivity_factor)
CharEq(o, x) ==
    [i \in 1..o.n_ct |->
        RAdd(RInt(o.total_char_capacity[i]),
             RMul(RSum([j \in 1..o.n_ct |-> Rat(x[j] * o.n_trip_ij[i][j], o.work_popu[j])]),
                  RSub(RInt(1), o.exclusivity_factor)))]

\* the normaliser of an indicator: popu_ct, num_of_veh_ct or VKT_flow_out_km
Normaliser(o, equity_indicator) ==
    CASE equity_indicator = "char_capacity_per_capita" -> o.popu_ct
      [] equity_indicator = "char_capacity_per_car" -> o.num_of_veh_ct
      [] equity_indicator = "char_capacity_per_VKT_out" -> o.VKT_flow_out_km

\* compute_xi_val: xi[i] == char_eq[i] / normaliser[i]
XiVal(o, equity_indicator, char_eq) ==
    [i \in 1..o.n_ct |-> RDiv(char_eq[i], RInt(Normaliser(o, equity_indicator)[i]))]

\* sum(series[val_group[i]]): the aggregate normaliser of a group
GroupSum(d, idx) == ISum(Pick(d, idx))

\* variant: the group value as the mean of the zones' xi
GroupVal_MeanOfXi(o, equity_indicator, demographic_group, char_eq) ==
    CHOOSE r \in
        {[g \in 1..Len(val_group) |->
             RMean(Pick(XiVal(o, equity_indicator, char_eq), val_group[g]))] :
           val_group \in {demo_category_list(o.df1, demographic_group)}} : TRUE

\* compute_group_val:
\*   val[i] == quicksum(char_eq[j] for j in val_group[i]) / popu_group[i]
GroupVal(o, equity_indicator, demographic_group, char_eq) ==
    CHOOSE r \in
        {[g \in 1..Len(val_group) |->
             RDiv(RSum(Pick(char_eq, val_group[g])), RInt(GroupSum(d, val_group[g])))] :
           val_group \in {demo_category_list(o.df1, demographic_group)},
           d \in {Normaliser(o, equity_indicator)}} : TRUE

\* the sum over i of |v[i] - mean(v)|, divided by n
MeanAbsDevOf(v0) ==
    CHOOSE r \in
        {RDiv(RSum([i \in 1..Len(v) |-> RAbs(RSub(v[i], mu))]), RInt(Len(v))) :
           v \in {v0}, mu \in {RMean(v0)}} : TRUE

\* the sum over i of (v[i] - mean(v)) ** 2, divided by n
VarianceOf(v0) ==
    CHOOSE r \in
        {RDiv(RSum([i \in 1..Len(v) |-> RMul(RSub(v[i], mu), RSub(v[i], mu))]), RInt(Len(v))) :
           v \in {v0}, mu \in {RMean(v0)}} : TRUE

\* variant: every unordered pair counted once
PairwiseAbsSum_Unordered(v0) ==
    CHOOSE r \in
        {RSum([k \in 1..(Len(v) * Len(v)) |->
                 IF ((k - 1) \div Len(v)) < ((k - 1) % Len(v))
                 THEN RAbs(RSub(v[((k - 1) \div Len(v)) + 1], v[((k - 1) % Len(v)) + 1]))
                 ELSE RZero]) :
           v \in {v0}} : TRUE

\* the sum over all ordered pairs (i, j) of |v[i] - v[j]|
PairwiseAbsSum(v0) ==
    CHOOSE r \in
        {RSum([k \in 1..(Len(v) * Len(v)) |->
                 RAbs(RSub(v[((k - 1) \div Len(v)) + 1], v[((k - 1) % Len(v)) + 1]))]) :
           v \in {v0}} : TRUE

\* the indices whose auxiliaries are only bounded from below
HasSlack(disparity_index) ==
    disparity_index \in {"mean_abs_dev", "relative_mean_abs_dev", "gini_coefficient"}

\* the indices whose value is a rational function of the vector
IsRational(disparity_index) == disparity_index # "coeff_of_var"

\* a value the model does not represent (the square root in coeff_of_var)
Irrational == <<0, 0>>

\* can the constraints of the linearisation be satisfied for the vector v?
\*   coeff_of_var:     aux1 * mean(v) == 1
\*   gini_coefficient: aux2 * sum(v) == 1
LinFeasible(disparity_index, v) ==
    CASE disparity_index = "coeff_of_var" -> RLt(RZero, RMean(v))
      [] disparity_index = "gini_coefficient" -> RLt(RZero, RSum(v))
      [] OTHER -> TRUE

\* the least value obj_val can take for the vector v (nonnegative entries),
\* every auxiliary at its lower bound
LinValue(disparity_index, v0) ==
    CHOOSE r \in
        {CASE disparity_index = "var" -> VarianceOf(v)
           [] disparity_index = "mean_abs_dev" -> MeanAbsDevOf(v)
           [] disparity_index = "relative_mean_abs_dev" ->
                 IF RMean(v) = RZero THEN RZero ELSE RDiv(MeanAbsDevOf(v), RMean(v))
           [] disparity_index = "gini_coefficient" ->
                 RMul(RDiv(PairwiseAbsSum(v), RInt(2 * Len(v))), RDiv(RInt(1), RSum(v)))
           [] OTHER -> Irrational :
         v \in {v0}} : TRUE

\* variant: every group weighted by its share of the zones
WithinValue_SizeWeighted(o, a, xi) ==
    IF IsRational(a.disparity_index)
    THEN CHOOSE r \in
            {RDiv(RSum([g \in 1..Len(val_group) |->
                          RMul(RInt(Len(val_group[g])),
                               LinValue(a.disparity_index, Pick(xi, val_group[g])))]),
                  RInt(o.n_ct)) :
               val_group \in {demo_category_list(o.df1, a.demographic_group)}} : TRUE
    ELSE Irrational

\* obj_val_within = quicksum(within_group[k]) / n_group
WithinValue(o, a, xi) ==
    IF IsRational(a.disparity_index)
    THEN CHOOSE r \in
            {RDiv(RSum([g \in 1..Len(val_group) |->
                          LinValue(a.disparity_index, Pick(xi, val_group[g]))]),
                  RInt(Len(val_group))) :
               val_group \in {demo_category_list(o.df1, a.demographic_group)}} : TRUE
    ELSE Irrational

\* a + k for an integer k, where a may be a value the model does not represent
PlusSlack(a, k) == IF a = Irrational THEN Irrational ELSE RAdd(a, RInt(k))

(***************************************************************************)
(* The solver as an oracle over the built model                            *)
(***************************************************************************)
\* candidate assignments of x: the grid XLow..MaxBudget per zone
XGrid(o) == [1..o.n_ct -> XLow..MaxBudget]

\* lower bound of a variable created by addVars without lb: the solver's 0
DefaultLb == 0

\* variant: the model without the constraint char_cap_l2 on the total
CapacityFeasible_NoTotal(o, a, x) ==
    \A i \in 1..o.n_ct : DefaultLb <= x[i] /\ x[i] <= a.max_add_capacity

\* x satisfies the bounds and the two capacity constraints:
\*   x[i] >= 0 (default lower bound), x[i] <= max_add_capacity   (char_cap_l1)
\*   quicksum(x) <= max_add_capacity                             (char_cap_l2)
CapacityFeasible(o, a, x) ==
    /\ \A i \in 1..o.n_ct : DefaultLb <= x[i] /\ x[i] <= a.max_add_capacity
    /\ ISum(x) <= a.max_add_capacity

\* char_eq[i] >= 0 (lb=0), and the linearisation of the between vector and of
\* every group's xi is satisfiable
DerivedFeasible(o, a, char_eq, xi, val) ==
    /\ \A i \in 1..o.n_ct : RLe(RZero, char_eq[i])
    /\ LinFeasible(a.disparity_index, val)
    /\ \E val_group \in {demo_category_list(o.df1, a.demographic_group)} :
          \A g \in 1..Len(val_group) :
              LinFeasible(a.disparity_index, Pick(xi, val_group[g]))

\* the points of the feasible region above x once char_eq, xi and val are
\* known: the between and the within term may exceed their least values
PointsAtVals(o, a, x, char_eq, xi, val) ==
    IF ~DerivedFeasible(o, a, char_eq, xi, val) THEN {}
    ELSE {[x |-> x, char_eq |-> char_eq, xi |-> xi, val |-> val,
           between |-> PlusSlack(bt, sb), within |-> PlusSlack(wt, sw)] :
            bt \in {LinValue(a.disparity_index, val)},
            wt \in {WithinValue(o, a, xi)},
            sb \in IF HasSlack(a.disparity_index) THEN 0..MaxSlack ELSE {0},
            sw \in IF HasSlack(a.disparity_index) THEN 0..MaxSlack ELSE {0}}

PointsAtCharEq(o, a, x, char_eq) ==
    UNION {PointsAtVals(o, a, x, char_eq, xi, val) :
             xi \in {XiVal(o, a.equity_indicator, char_eq)},
             val \in {GroupVal(o, a.equity_indicator, a.demographic_group, char_eq)}}

\* every assignment of values to the variables that satisfies the constraints
\* of the model built for the arguments a
Points(o, a) ==
    UNION {UNION {PointsAtCharEq(o, a, x, char_eq) : char_eq \in {CharEq(o, x)}} :
             x \in {y \in XGrid(o) : CapacityFeasible(o, a, y)}}

\* value of the objective expression set by setObjective at a point
ObjectiveAt(objective, p) ==
    IF p.between = Irrational THEN Irrational
    ELSE RAdd(RMul(p.between, objective.between), RMul(p.within, objective.within))

\* variant: a solver that reports any feasible point as optimal
OptimalPoints_AnyFeasible(a, objective, pts) == pts

\* the points no other point beats (coeff_of_var: not decided by the model,
\* every point may be reported)
OptimalPoints(a, objective, pts) ==
    IF IsRational(a.disparity_index)
    THEN \* obj is evaluated once per point
         CHOOSE r \in {{p \in pts : \A q \in pts : RLe(obj[p], obj[q])} :
                         obj \in {[p \in pts |-> ObjectiveAt(objective, p)]}} : TRUE
    ELSE pts

NoSol == [x |-> <<>>, char_eq |-> <<>>, xi |-> <<>>, val |-> <<>>,
          between |-> RZero, within |-> RZero]

\* m.optimize(softtime): the status and the incumbent the solver ends with.
\* The search may be cut by the time limit before any incumbent is found.
OptimizeOutcomes(o, a, m0) ==
    CHOOSE r \in
        {IF pts = {}
         THEN {[status |-> "INFEASIBLE", SolCount |-> 0, sol |-> NoSol]}
         ELSE {[status |-> st, SolCount |-> 1, sol |-> p] :
                  st \in {"TIME_LIMIT", "INTERRUPTED"}, p \in pts}
              \cup {[status |-> "OPTIMAL", SolCount |-> 1, sol |-> p] :
                      p \in OptimalPoints(a, m0.objective, pts)}
              \cup {[status |-> "TIME_LIMIT", SolCount |-> 0, sol |-> NoSol]} :
           pts \in {Points(o, a)}} : TRUE

\* var.X of the variable named name at the incumbent
VarX(p, name) ==
    CASE name[1] = "charger_capacity_wp" -> RInt(p.x[name[2] + 1])
      [] name[1] = "equvalent_char_capacity" -> p.char_eq[name[2] + 1]
      [] name[1] = "equity_indicator" -> p.xi[name[2] + 1]
      [] name[1] = "indicator_group_value" -> p.val[name[2] + 1]
      [] name[1] = "obj_val_between" -> p.between
      [] name[1] = "obj_val_within" -> p.within

(***************************************************************************)
(* EV_Opt.solve after m.optimize: what it writes and what it returns       *)
(***************************************************************************)
\* solve on INFEASIBLE: computeIIS, m.write("model_2025.ilp"), return None
IlpFile == <<"model_2025.ilp">>

\* variant: the three groups read one position too far
Solutions_ShiftedByOne(o, m0, out) ==
    [kind |-> "pair",
     sol0 |-> [obj_val_between |-> VarX(out.sol, <<"obj_val_between">>),
               obj_val_within |-> VarX(out.sol, <<"obj_val_within">>)],
     sol1 |-> [objective_value |-> ObjectiveAt(m0.objective, out.sol),
               charger_capacity_wp |->
                   [i \in 1..o.n_ct |-> VarX(out.sol, m0.vars[i + 1])],
               equivalent_char_capacity |->
                   [i \in 1..o.n_ct |-> VarX(out.sol, m0.vars[i + 1 + o.n_ct])],
               equity_xi |->
                   [i \in 1..o.n_ct |-> VarX(out.sol, m0.vars[i + 1 + 2 * o.n_ct])]]]

\* solution0["obj_val_between"], solution0["obj_val_within"] and solution1
Solutions(o, m0, out) ==
    [kind |-> "pair",
     sol0 |-> [obj_val_between |-> VarX(out.sol, <<"obj_val_between">>),
               obj_val_within |-> VarX(out.sol, <<"obj_val_within">>)],
     sol1 |-> [objective_value |-> ObjectiveAt(m0.objective, out.sol),
               charger_capacity_wp |->
                   [i \in 1..o.n_ct |-> VarX(out.sol, m0.vars[i])],
               equivalent_char_capacity |->
                   [i \in 1..o.n_ct |-> VarX(out.sol, m0.vars[i + o.n_ct])],
               equity_xi |->
                   [i \in 1..o.n_ct |-> VarX(out.sol, m0.vars[i + 2 * o.n_ct])]]]

\* the return value, the exception and the files written by solve
solve(o, m0, out) ==
    IF out.status = "INFEASIBLE"
    THEN [ret |-> None, exc |-> "none", written |-> {IlpFile}]
    ELSE IF out.SolCount = 0
    THEN [ret |-> None, exc |-> "AttributeError", written |-> {}]
    ELSE [ret |-> Solutions(o, m0, out), exc |-> "none", written |-> {}]

(***************************************************************************)
(* EVChargerEquityEvaluation (src/opt/ev_eval.py)                          *)
(***************************************************************************)
\* a floating-point result that is not a number (0/0, 0 * log 0)
NaN == <<0, 0 - 1>>

EvalIndicators ==
    {"char_per_capita", "char_capacity_per_capita", "char_per_veh",
     "char_capacity_per_car", "char_per_VKT_out", "char_capacity_per_VKT_out"}

EvalIndices ==
    {"mean_abs_dev", "relative_mean_abs_dev", "gini_coefficient", "lorenz_curve",
     "theil_index"}

\* __init__: the derived columns the indicators are built from
EVChargerEquityEvaluation_init(data) ==
    [df1 |-> data.df1,
     n |-> Len(data.df2),
     popu |-> data.df1.popu,
     veh_num |-> data.df1.veh_num,
     total_char_num |->
        [i \in 1..Len(data.df2) |->
            data.df1.char_num_not_home[i] + data.df1.char_num_home[i]],
     total_char_capacity |->
        [i \in 1..Len(data.df2) |->
            data.df1.char_capacity_not_home[i] + data.df1.char_capacity_home[i]],
     VKT_flow_out_km |-> RowSums(data.df3)]

\* the column summed as numerator of an indicator
NumeratorCol(e, equity_indicator) ==
    IF equity_indicator \in {"char_per_capita", "char_per_veh", "char_per_VKT_out"}
    THEN e.total_char_num ELSE e.total_char_capacity

\* the column summed as denominator of an indicator
DenominatorCol(e, equity_indicator) ==
    IF equity_indicator \in {"char_per_capita", "char_capacity_per_capita"} THEN e.popu
    ELSE IF equity_indicator \in {"char_per_veh", "char_capacity_per_car"} THEN e.veh_num
    ELSE e.VKT_flow_out_km

\* df1[indicator]: the per-zone ratio column computed in __init__
IndicatorCol(e, equity_indicator) ==
    [i \in 1..e.n |-> Rat(NumeratorCol(e, equity_indicator)[i],
                          DenominatorCol(e, equity_indicator)[i])]

\* np.sort of a vector of rationals (insertion of the head into the sorted tail)
RECURSIVE InsertSorted(_, _)
InsertSorted(q, s) ==
    IF s = <<>> THEN <<q>>
    ELSE IF RLe(q, s[1]) THEN <<q>> \o s
    ELSE <<s[1]>> \o InsertSorted(q, Tail(s))

RECURSIVE SortFrom(_, _)
SortFrom(v, k) ==
    IF k > Len(v) THEN <<>>
    ELSE CHOOSE r \in {InsertSorted(v[k], rest) : rest \in {SortFrom(v, k + 1)}} : TRUE

\* variant: the data are not sorted
np_sort_Unsorted(v0) == v0

np_sort(v0) == CHOOSE r \in {SortFrom(v, 1) : v \in {v0}} : TRUE

\* variant: index = 0..n-1
RankSumDesc_FromZero(d) == RSum([k \in 1..Len(d) |-> RMul(RInt(Len(d) + 1 - (k - 1)), d[k])])

\* np.sum((n + 1 - index) * data), index = 1..n
RankSumDesc(d) == RSum([k \in 1..Len(d) |-> RMul(RInt(Len(d) + 1 - k), d[k])])
\* variant: the opposite sign convention
RankSumLorenz_Negated(d) == RSum([k \in 1..Len(d) |-> RMul(RInt(Len(d) + 1 - 2 * k), d[k])])

\* np.sum((2 * index - n - 1) * data)
RankSumLorenz(d) == RSum([k \in 1..Len(d) |-> RMul(RInt(2 * k - Len(d) - 1), d[k])])

\* compute_disparity(disparity_index, data) for a nonempty vector of
\* nonnegative numbers; numpy division by zero yields nan, it does not raise
compute_disparity(disparity_index, data0) ==
    CHOOSE r \in
      {IF disparity_index = "mean_abs_dev" THEN MeanAbsDevOf(data)
       ELSE IF disparity_index = "relative_mean_abs_dev"
       THEN IF RMean(data) = RZero THEN NaN ELSE RDiv(MeanAbsDevOf(data), RMean(data))
       ELSE IF disparity_index = "gini_coefficient"
       THEN IF RSum(data) = RZero THEN NaN
            ELSE RSub(RAdd(RInt(1), Rat(1, Len(data))),
                      RDiv(RMul(Rat(2, Len(data)), RankSumDesc(np_sort(data))), RSum(data)))
       ELSE IF disparity_index = "lorenz_curve"
       THEN IF RSum(data) = RZero THEN NaN
            ELSE RDiv(RankSumLorenz(np_sort(data)), RMul(RInt(Len(data)), RSum(data)))
       ELSE IF disparity_index = "theil_index"
       THEN IF \E i \in 1..Len(data) : data[i] = RZero THEN NaN
            ELSE IF \A i \in 1..Len(data) : data[i] = data[1] THEN RZero
            ELSE Irrational
       ELSE <<"ValueError">> :
        data \in {data0}} : TRUE

\* df1.groupby(attr): the groups in ascending order of their label, each the
\* ascending index of its rows
RECURSIVE SortedLabels(_)
SortedLabels(S) ==
    IF S = {} THEN <<>>
    ELSE CHOOSE r \in {<<lo>> \o SortedLabels(S \ {lo}) :
                         lo \in {CHOOSE x \in S : \A y \in S : x <= y}} : TRUE

groupby(df1, demographic_group) ==
    CHOOSE r \in
        {[g \in 1..Len(keys) |-> IndexOf(labels, keys[g], 1)] :
           labels \in {LabelsOf(df1, demographic_group)},
           keys \in {SortedLabels({LabelsOf(df1, demographic_group)[i] :
                                     i \in 1..Len(LabelsOf(df1, demographic_group))})}} : TRUE

\* variant: the group value as the mean of the per-zone ratios
GroupRatio_MeanOfRatios(e, equity_indicator, idx) ==
    RMean(Pick(IndicatorCol(e, equity_indicator), idx))

\* temp = groupby(attr)[[num, den]].sum(); temp[ind] = temp[num] / temp[den]
GroupRatio(e, equity_indicator, idx) ==
    IF GroupSum(DenominatorCol(e, equity_indicator), idx) = 0
    THEN NaN
    ELSE Rat(GroupSum(NumeratorCol(e, equity_indicator), idx),
             GroupSum(DenominatorCol(e, equity_indicator), idx))

\* variant: the indicator is tested before the demographic attribute
compute_equity_IndicatorFirst(e, equity_indicator, demographic_group, disparity_index) ==
    IF equity_indicator \notin EvalIndicators
    THEN [exc |-> "ValueError", msg |-> "Invalid equity indicator",
          inter |-> NaN, intra |-> <<>>, group_ratio |-> <<>>]
    ELSE IF demographic_group \notin DemoAttributes
    THEN [exc |-> "ValueError", msg |-> "Invalid demongraphic group",
          inter |-> NaN, intra |-> <<>>, group_ratio |-> <<>>]
    ELSE IF disparity_index \notin EvalIndices
    THEN [exc |-> "ValueError", msg |-> "Invalid disparity index",
          inter |-> NaN, intra |-> <<>>, group_ratio |-> <<>>]
    ELSE [exc |-> "none", msg |-> "",
          inter |-> compute_disparity(disparity_index,
                       [g \in 1..Len(groupby(e.df1, demographic_group)) |->
                           Rat(GroupSum(NumeratorCol(e, equity_indicator),
                                        groupby(e.df1, demographic_group)[g]),
                               GroupSum(DenominatorCol(e, equity_indicator),
                                        groupby(e.df1, demographic_group)[g]))]),
          intra |-> [g \in 1..Len(groupby(e.df1, demographic_group)) |->
                       compute_disparity(disparity_index,
                           Pick(IndicatorCol(e, equity_indicator),
                                groupby(e.df1, demographic_group)[g]))],
          group_ratio |-> [g \in 1..Len(groupby(e.df1, demographic_group)) |->
                           Rat(GroupSum(NumeratorCol(e, equity_indicator),
                                        groupby(e.df1, demographic_group)[g]),
                               GroupSum(DenominatorCol(e, equity_indicator),
                                        groupby(e.df1, demographic_group)[g]))]]

\* compute_equity: the three membership tests in the order of the code, then
\* (inter_disparity, intra_disparity)
compute_equity(e, equity_indicator, demographic_group, disparity_index) ==
    IF demographic_group \notin DemoAttributes
    THEN [exc |-> "ValueError", msg |-> "Invalid demongraphic group",
          inter |-> NaN, intra |-> <<>>, group_ratio |-> <<>>]
    ELSE IF equity_indicator \notin EvalIndicators
    THEN [exc |-> "ValueError", msg |-> "Invalid equity indicator",
          inter |-> NaN, intra |-> <<>>, group_ratio |-> <<>>]
    ELSE IF disparity_index \notin EvalIndices
    THEN [exc |-> "ValueError", msg |-> "Invalid disparity index",
          inter |-> NaN, intra |-> <<>>, group_ratio |-> <<>>]
    ELSE CHOOSE r \in
           {[exc |-> "none", msg |-> "",
             inter |-> compute_disparity(disparity_index, temp),
             intra |-> [g \in 1..Len(groups) |->
                          compute_disparity(disparity_index, Pick(col, groups[g]))],
             group_ratio |-> temp] :
              groups \in {groupby(e.df1, demographic_group)},
              col \in {IndicatorCol(e, equity_indicator)},
              temp \in {[g \in 1..Len(groupby(e.df1, demographic_group)) |->
                           GroupRatio(e, equity_indicator,
                                      groupby(e.df1, demographic_group)[g])]}} : TRUE

(***************************************************************************)
(* State                                                                   *)
(***************************************************************************)
VARIABLES
    opt,      \* the EV_Opt object (Optimizer)
    pc,       \* position of the running optimization call
    args,     \* arguments of the running call
    m,        \* the solver model of the running call
    outcome,  \* what m.optimize ended with
    ret,      \* value returned by solve
    exc,      \* exception propagating out of optimization
    files,    \* files written so far
    sweep,    \* the batch driver: its lists, its position, its progress
    evaluator,\* the EVChargerEquityEvaluation object
    ev,       \* the last compute_equity call and what it gave
    disparity,\* the last direct compute_disparity call and what it gave
    cb,       \* the search of m.optimize as the callback softtime sees it
    eqchar    \* the last construction of EVChargerEquityEvaluationwEqChar

vars == <<opt, pc, args, m, outcome, ret, exc, files, sweep, evaluator, ev, disparity, cb,
         eqchar>>

NoArgs == [equity_indicator |-> "", demographic_group |-> "", disparity_index |-> "",
           max_add_capacity |-> 0, multi_obj_bet_weight |-> [float |-> TRUE, num |-> 0]]
NoOutcome == [status |-> "LOADED", SolCount |-> 0, sol |-> NoSol]
NoSweep == [on |-> FALSE]
NoEval == [called |-> FALSE]
NoDisparity == [called |-> FALSE]
NoSearch == [invoked |-> FALSE, Runtime |-> 0, terminated |-> FALSE]
NoEqChar == [constructed |-> FALSE]

\* the optimizers that are constructed: data set and exclusivity factor
OptConfigs ==
    {<<RawA, Rat(0, 1)>>, <<RawB, Rat(0, 1)>>, <<RawB, Rat(1, 2)>>, <<RawC, Rat(1, 1)>>}

OutputDir == "output"

\* arguments a caller passes
ArgIndicators == OptIndicators \cup {"char_per_capita"}
ArgGroups == DemoAttributes \cup {"invalid"}
ArgIndices == IndexNames \cup {"variance", "lorenz_curve", "theil_index"}
ArgBudgets == XLow..MaxBudget
ArgWeights ==
    {[float |-> TRUE, num |-> n] : n \in {0 - 1, 0, 5, WDen, WDen + 1}}
    \cup {[float |-> FALSE, num |-> n] : n \in {0, WDen, 2 * WDen}}

\* the objects are constructed, nothing has been called yet
Constructed ==
    /\ \E c \in OptConfigs :
          /\ opt = EV_Opt_init(ProcessDemoData(c[1]), OutputDir, c[2])
          /\ evaluator = EVChargerEquityEvaluation_init(ProcessDemoData(c[1]))
    /\ ev = NoEval
    /\ disparity = NoDisparity
    /\ cb = NoSearch
    /\ eqchar = NoEqChar
    /\ pc = "idle"
    /\ args = NoArgs
    /\ m = NoModel
    /\ outcome = NoOutcome
    /\ ret = None
    /\ exc = "none"
    /\ files = {}

Init ==
    /\ Constructed
    /\ sweep = NoSweep

(***************************************************************************)
(* EV_Opt.optimization, statement by statement                             *)
(***************************************************************************)
\* a caller invokes Optimizer.optimization(...)
Call ==
    /\ pc = "idle"
    /\ ~sweep.on
    /\ \E ind \in ArgIndicators, grp \in ArgGroups, idx \in ArgIndices,
          b \in ArgBudgets, w \in ArgWeights :
          args' = [equity_indicator |-> ind, demographic_group |-> grp,
                   disparity_index |-> idx, max_add_capacity |-> b,
                   multi_obj_bet_weight |-> w]
    /\ pc' = "create_model"
    /\ UNCHANGED <<opt, m, outcome, ret, exc, files, sweep, evaluator, ev, disparity, cb,
                   eqchar>>

\* variant: the builder goes on with the model of the previous call
CreateModel_Reusing ==
    /\ pc = "create_model"
    /\ m' = IF m.exists THEN m ELSE gp_Model
    /\ pc' = "add_vars"
    /\ UNCHANGED <<opt, args, outcome, ret, exc, files, sweep, evaluator, ev, disparity, cb,
                   eqchar>>

\* m = gp.Model("charger_planning")
CreateModel ==
    /\ pc = "create_model"
    /\ m' = gp_Model
    /\ pc' = "add_vars"
    /\ UNCHANGED <<opt, args, outcome, ret, exc, files, sweep, evaluator, ev, disparity, cb,
                   eqchar>>

\* x, char_eq, xi = m.addVars(...); char_cap_l1, char_cap_l2, char_capacity_each_ct
AddVarsAndCapacityConstrs ==
    /\ pc = "add_vars"
    /\ LET m1 == addVars(m, opt.n_ct, "charger_capacity_wp")
           m2 == addVars(m1, opt.n_ct, "equvalent_char_capacity")
           m3 == addVars(m2, opt.n_ct, "equity_indicator")
           m4 == addConstrs(m3, opt.n_ct, "char_cap_l1")
           m5 == addConstr(m4, "char_cap_l2")
       IN  m' = addConstrs(m5, opt.n_ct, "char_capacity_each_ct")
    /\ pc' = "compute_xi_val"
    /\ UNCHANGED <<opt, args, outcome, ret, exc, files, sweep, evaluator, ev, disparity, cb,
                   eqchar>>

\* a builder step with result r: go on at next, or propagate the exception
BuilderStep(r, next) ==
    /\ m' = r.m
    /\ exc' = r.exc
    /\ pc' = IF r.exc = "none" THEN next ELSE "raised"
    /\ UNCHANGED <<opt, args, outcome, ret, files, sweep, evaluator, ev, disparity, cb, eqchar>>

\* self.compute_xi_val(m, char_eq, xi, equity_indicator, **kwargs)
ComputeXiVal ==
    /\ pc = "compute_xi_val"
    /\ BuilderStep(compute_xi_val(opt, m, args.equity_indicator), "compute_group_val")

\* val = self.compute_group_val(m, char_eq, equity_indicator, demographic_group, **kwargs)
ComputeGroupVal ==
    /\ pc = "compute_group_val"
    /\ BuilderStep(compute_group_val(opt, m, args.equity_indicator, args.demographic_group),
                   "get_equity_objective")

\* self.get_equity_objective(m, xi, val, disparity_index, demographic_group, **kwargs)
GetEquityObjective ==
    /\ pc = "get_equity_objective"
    /\ BuilderStep(get_equity_objective(opt, m, args.disparity_index,
                                        args.demographic_group, args.multi_obj_bet_weight),
                   "solve")

\* self.solve(...): m.optimize(softtime), then the status test and the extraction
Solve ==
    /\ pc = "solve"
    /\ \E out \in OptimizeOutcomes(opt, args, m) :
          \E r \in {solve(opt, m, out)} :
              /\ outcome' = out
              /\ ret' = r.ret
              /\ exc' = r.exc
              /\ files' = files \cup r.written
              /\ pc' = IF r.exc = "none" THEN "unpack" ELSE "raised"
    /\ UNCHANGED <<opt, args, m, sweep, evaluator, ev, disparity, cb, eqchar>>

\* sol0, sol1 = <value returned by solve>; return m, sol0, sol1
\* unpacking None raises TypeError
UnpackAndReturn ==
    /\ pc = "unpack"
    /\ IF ret.kind = "pair"
       THEN pc' = "returned" /\ exc' = "none"
       ELSE pc' = "raised" /\ exc' = "TypeError"
    /\ UNCHANGED <<opt, args, m, outcome, ret, files, sweep, evaluator, ev, disparity, cb,
                   eqchar>>

\* the direct caller takes the result or the exception
Finish ==
    /\ pc \in {"returned", "raised"}
    /\ ~sweep.on
    /\ pc' = "idle"
    /\ args' = NoArgs
    /\ m' = NoModel
    /\ outcome' = NoOutcome
    /\ ret' = None
    /\ exc' = "none"
    /\ UNCHANGED <<opt, files, sweep, evaluator, ev, disparity, cb, eqchar>>

(***************************************************************************)
(* A caller of the Evaluator                                               *)
(***************************************************************************)
EvalArgIndicators == EvalIndicators \cup {"eq_char_per_capita"}
EvalArgIndices == EvalIndices \cup {"var", "coeff_of_var"}

\* evaluator.compute_equity(equity_indicator, demographic_group, disparity_index)
Evaluate ==
    /\ pc = "idle"
    /\ ~sweep.on
    /\ \E ind \in EvalArgIndicators, grp \in ArgGroups, idx \in EvalArgIndices :
          ev' = [called |-> TRUE, equity_indicator |-> ind, demographic_group |-> grp,
                 disparity_index |-> idx,
                 result |-> compute_equity(evaluator, ind, grp, idx)]
    /\ pc' = "evaluated"
    /\ UNCHANGED <<opt, args, m, outcome, ret, exc, files, sweep, evaluator, disparity, cb,
                   eqchar>>

\* the caller takes the result or the exception of compute_equity
EvalFinish ==
    /\ pc = "evaluated"
    /\ pc' = "idle"
    /\ ev' = NoEval
    /\ UNCHANGED <<opt, args, m, outcome, ret, exc, files, sweep, evaluator, disparity, cb,
                   eqchar>>

Next ==
    \/ Call
    \/ CreateModel
    \/ AddVarsAndCapacityConstrs
    \/ ComputeXiVal
    \/ ComputeGroupVal
    \/ GetEquityObjective
    \/ Solve
    \/ UnpackAndReturn
    \/ Finish
    \/ Evaluate
    \/ EvalFinish

Spec == Init /\ [][Next]_vars


(***************************************************************************)
(* The batch driver (src/opt/ev_opt_run.py)                                *)
(***************************************************************************)
Float(n) == [float |-> TRUE, num |-> n]

\* parameter lists a sweep is configured with; the first is the script's own
\* choice of names with a shortened weight list
SweepLists ==
    {[equity_indicator_list |-> <<"char_capacity_per_capita", "char_capacity_per_car">>,
      demographic_group_list |-> <<"income_level", "mud_level">>,
      disparity_index_list |-> <<"relative_mean_abs_dev">>,
      max_add_capacity_list |-> <<0, MaxBudget>>,
      multi_obj_setting |-> <<Float(0), Float(5), Float(WDen)>>],
     [equity_indicator_list |-> <<"char_capacity_per_VKT_out">>,
      demographic_group_list |-> <<"major_ethnicity", "employment_level">>,
      disparity_index_list |-> <<"gini_coefficient", "mean_abs_dev">>,
      max_add_capacity_list |-> <<0, 1>>,
      multi_obj_setting |-> <<Float(5)>>]}

\* number of tuples of the Cartesian product
NTuples(l) ==
    Len(l.equity_indicator_list) * Len(l.demographic_group_list)
    * Len(l.disparity_index_list) * Len(l.max_add_capacity_list)
    * Len(l.multi_obj_setting)

\* the k-th tuple (k = 1..NTuples) in the order of the nested for loops:
\* indicator outermost, weight innermost
TupleAt(l, k) ==
    LET n5 == Len(l.multi_obj_setting)
        n4 == Len(l.max_add_capacity_list)
        n3 == Len(l.disparity_index_list)
        n2 == Len(l.demographic_group_list)
        j == k - 1
    IN  [equity_indicator |-> l.equity_indicator_list[(j \div (n5 * n4 * n3 * n2)) + 1],
         demographic_group |-> l.demographic_group_list[((j \div (n5 * n4 * n3)) % n2) + 1],
         disparity_index |-> l.disparity_index_list[((j \div (n5 * n4)) % n3) + 1],
         max_add_capacity |-> l.max_add_capacity_list[((j \div n5) % n4) + 1],
         multi_obj_bet_weight |-> l.multi_obj_setting[(j % n5) + 1]]

\* output_dir + "/kwargs_lst.json"
ManifestFile == <<"kwargs_lst.json">>

\* "result_val_{}_{}_{}_{}_{}_{}.npz".format(indicator, group, index, budget,
\*                                            weight, ex_factor)
ResultFile(a, ex_factor) ==
    <<"result_val", a.equity_indicator, a.demographic_group, a.disparity_index,
      a.max_add_capacity, a.multi_obj_bet_weight.num, ex_factor>>

InitSweep ==
    /\ Constructed
    /\ \E l \in SweepLists :
          sweep = [on |-> TRUE, lists |-> l, at |-> "manifest", pos |-> 1, ran |-> <<>>]

\* with open(output_dir + "/kwargs_lst.json", "w") as f: json.dump(config, f)
WriteManifest ==
    /\ sweep.on /\ sweep.at = "manifest"
    /\ files' = files \cup {ManifestFile}
    /\ sweep' = [sweep EXCEPT !.at = "loop"]
    /\ UNCHANGED <<opt, pc, args, m, outcome, ret, exc, evaluator, ev, disparity, cb, eqchar>>

\* next iteration of the innermost loop: kwargs[...] = ...;
\* m, sol0, sol1 = Optimizer.optimization(...)
SweepCall ==
    /\ sweep.on /\ sweep.at = "loop" /\ pc = "idle"
    /\ sweep.pos <= NTuples(sweep.lists)
    /\ args' = TupleAt(sweep.lists, sweep.pos)
    /\ pc' = "create_model"
    /\ sweep' = [sweep EXCEPT !.at = "calling",
                              !.ran = Append(@, TupleAt(sweep.lists, sweep.pos))]
    /\ UNCHANGED <<opt, m, outcome, ret, exc, files, evaluator, ev, disparity, cb, eqchar>>

\* np.savez(output_dir + "result_val_....npz", sol1[...], ..., sol0[...]);
\* the script's names kwargs, m, sol0 and sol1 keep their objects until the next
\* iteration rebinds them
SweepSave ==
    /\ sweep.on /\ sweep.at = "calling" /\ pc = "returned"
    /\ files' = files \cup {ResultFile(args, opt.exclusivity_factor)}
    /\ sweep' = [sweep EXCEPT !.at = "loop", !.pos = @ + 1]
    /\ pc' = "idle"
    /\ outcome' = NoOutcome
    /\ UNCHANGED <<opt, args, m, ret, exc, evaluator, ev, disparity, cb, eqchar>>

\* an exception leaves optimization: nothing catches it, the script ends
SweepCrash ==
    /\ sweep.on /\ sweep.at = "calling" /\ pc = "raised"
    /\ sweep' = [sweep EXCEPT !.at = "crashed"]
    /\ UNCHANGED <<opt, pc, args, m, outcome, ret, exc, files, evaluator, ev, disparity, cb,
                   eqchar>>

\* the loops are exhausted
SweepEnd ==
    /\ sweep.on /\ sweep.at = "loop" /\ pc = "idle"
    /\ sweep.pos > NTuples(sweep.lists)
    /\ sweep' = [sweep EXCEPT !.at = "done"]
    /\ UNCHANGED <<opt, pc, args, m, outcome, ret, exc, files, evaluator, ev, disparity, cb,
                   eqchar>>

NextSweep ==
    \/ WriteManifest
    \/ SweepCall
    \/ CreateModel
    \/ AddVarsAndCapacityConstrs
    \/ ComputeXiVal
    \/ ComputeGroupVal
    \/ GetEquityObjective
    \/ Solve
    \/ UnpackAndReturn
    \/ SweepSave
    \/ SweepCrash
    \/ SweepEnd

SpecSweep == InitSweep /\ [][NextSweep]_vars


(***************************************************************************)
(* compute_disparity called directly on a vector                           *)
(***************************************************************************)
\* longest vector and largest entry of the vectors passed in
MaxLen == 3
MaxVal == 3

\* the vectors passed in: nonnegative numbers, at least one
DisparityInputs ==
    UNION {[1..n -> {RInt(k) : k \in 0..MaxVal}] : n \in 1..MaxLen}

InitDisparity ==
    /\ Constructed
    /\ sweep = NoSweep

\* evaluator.compute_disparity(disparity_index, data)
ComputeDisparity ==
    /\ pc = "idle"
    /\ \E idx \in EvalArgIndices, data \in DisparityInputs :
          disparity' = [called |-> TRUE, disparity_index |-> idx, data |-> data,
                        result |-> compute_disparity(idx, data)]
    /\ pc' = "computed"
    /\ UNCHANGED <<opt, args, m, outcome, ret, exc, files, sweep, evaluator, ev, cb, eqchar>>

\* the caller takes the value or the exception of compute_disparity
DisparityReturn ==
    /\ pc = "computed"
    /\ pc' = "idle"
    /\ disparity' = NoDisparity
    /\ UNCHANGED <<opt, args, m, outcome, ret, exc, files, sweep, evaluator, ev, cb, eqchar>>

NextDisparity ==
    \/ ComputeDisparity
    \/ DisparityReturn

SpecDisparity == InitDisparity /\ [][NextDisparity]_vars

(***************************************************************************)
(* softtime, the callback passed to m.optimize (src/opt/ev_opt.py)         *)
(***************************************************************************)
softlimit == 20
softgap == Rat(5, 100)
\* the callback reads the bounds only after this many seconds
WarmUp == 10

\* seconds a search is followed for; values of the incumbent and of the bound
MaxRuntime == 22
ObjValues == {0, 95, 96, 100}

\* the callback codes: softtime acts on MIP only
CallbackWhere == {"POLLING", "MIP", "MIPSOL", "MIPNODE"}

\* gap = 0 if objbst == 0, else abs(objbst - objbnd) / objbst
CallbackGap(objbst, objbnd) ==
    IF objbst = 0 THEN RZero ELSE Rat(Abs(objbst - objbnd), objbst)

\* variant: the warm-up threshold decides alone
softtime_WarmUpOnly(where, runtime, objbst, objbnd) ==
    /\ where = "MIP"
    /\ runtime > WarmUp
    /\ RLt(CallbackGap(objbst, objbnd), softgap)

\* softtime(model, where): does it call model.terminate()?
softtime(where, runtime, objbst, objbnd) ==
    /\ where = "MIP"
    /\ runtime > WarmUp
    /\ runtime > softlimit /\ RLt(CallbackGap(objbst, objbnd), softgap)

InitSearch ==
    /\ Constructed
    /\ sweep = NoSweep

\* the solver invokes the callback: time has passed, the bounds may have moved
InvokeCallback ==
    /\ ~cb.terminated
    /\ \E where \in CallbackWhere, runtime \in cb.Runtime..MaxRuntime,
          objbst \in ObjValues, objbnd \in ObjValues :
          /\ objbnd <= objbst
          /\ cb' = [invoked |-> TRUE, where |-> where, Runtime |-> runtime,
                    MIP_OBJBST |-> objbst, MIP_OBJBND |-> objbnd,
                    terminated |-> softtime(where, runtime, objbst, objbnd)]
    /\ UNCHANGED <<opt, pc, args, m, outcome, ret, exc, files, sweep, evaluator, ev,
                   disparity, eqchar>>

\* the search is over, the next call of m.optimize starts a new one
EndSearch ==
    /\ cb.invoked
    /\ cb' = NoSearch
    /\ UNCHANGED <<opt, pc, args, m, outcome, ret, exc, files, sweep, evaluator, ev,
                   disparity, eqchar>>

NextSearch ==
    \/ InvokeCallback
    \/ EndSearch

SpecSearch == InitSearch /\ [][NextSearch]_vars

(***************************************************************************)
(* EVChargerEquityEvaluationwEqChar.__init__ (src/opt/ev_eval_w_eqchar.py) *)
(***************************************************************************)
\* largest workplace charger count of a zone in the inputs
MaxChargers == 2

\* number of zones of the large input
WideN == 103

\* kW of one workplace charger
KWPerCharger == 13

\* the position the assertion of eq_wp_char_dist reads (0-based)
AssertedZone == 102

\* a flow matrix of WideN zones: two commuters inside every zone and one to the
\* next zone
WideFlow ==
    [i \in 1..WideN |->
        [j \in 1..WideN |-> IF i = j THEN 2 ELSE IF j = i + 1 THEN 1 ELSE 0]]

EqCharFlows == {RawA.flow, RawB.flow, RawC.flow, WideFlow}

\* the charger counts per zone: every vector for a small input, one for the
\* large input
ChargerCounts(n) ==
    IF n < WideN THEN [1..n -> 0..MaxChargers]
    ELSE {[i \in 1..n |-> i % (MaxChargers + 1)]}

\* the inputs of the constructor: the flow matrix df2, the column
\* work_popu_LODES (the column sums, data_process.py) and the optional columns
\* workplace_char_capacity_kW and workplace_char_num of df1
EqCharInputs ==
    UNION {{[n_trip_ij |-> f, work_popu |-> ColSums(f),
             has_capacity |-> hc, has_num |-> hn,
             workplace_char_capacity_kW |-> [i \in 1..Len(f) |-> KWPerCharger * c[i]],
             workplace_char_num |-> c] :
               c \in ChargerCounts(Len(f)), hc \in BOOLEAN, hn \in BOOLEAN} :
           f \in EqCharFlows}

\* __init__ lines 29-39: the workplace capacity column after the defaults
WorkplaceCapacity(inp) ==
    IF inp.has_capacity THEN inp.workplace_char_capacity_kW
    ELSE IF inp.has_num
    THEN [i \in 1..Len(inp.n_trip_ij) |-> inp.workplace_char_num[i] * KWPerCharger]
    ELSE [i \in 1..Len(inp.n_trip_ij) |-> 0]

\* n_trip_ij.sum(axis=0)[102] and work_popu.values[102] exist
AssertedZoneExists(n) == n > AssertedZone

\* n_trip_ij_pct @ workplace_char_capacity_kW, with
\* n_trip_ij_pct = n_trip_ij / n_trip_ij.sum(axis=0)[None, :]
EqWorkplaceCapacity(n_trip_ij, capacity) ==
    CHOOSE r \in
        {[i \in 1..Len(n_trip_ij) |->
             RSum([j \in 1..Len(n_trip_ij) |-> Rat(n_trip_ij[i][j] * capacity[j], sums[j])])] :
           sums \in {ColSums(n_trip_ij)}} : TRUE

\* eq_wp_char_dist, called by __init__: the exception it raises, or the
\* equivalent workplace capacities
EVChargerEquityEvaluationwEqChar_init(inp) ==
    CHOOSE r \in
        {IF ~AssertedZoneExists(Len(inp.n_trip_ij))
         THEN [constructed |-> TRUE, exc |-> "IndexError", n |-> Len(inp.n_trip_ij),
               workplace_char_capacity_kW |-> capacity,
               eq_workplace_char_capacity_kW |-> <<>>]
         ELSE IF ColSums(inp.n_trip_ij)[AssertedZone + 1] # inp.work_popu[AssertedZone + 1]
         THEN [constructed |-> TRUE, exc |-> "AssertionError", n |-> Len(inp.n_trip_ij),
               workplace_char_capacity_kW |-> capacity,
               eq_workplace_char_capacity_kW |-> <<>>]
         ELSE [constructed |-> TRUE, exc |-> "none", n |-> Len(inp.n_trip_ij),
               workplace_char_capacity_kW |-> capacity,
               eq_workplace_char_capacity_kW |->
                   EqWorkplaceCapacity(inp.n_trip_ij, capacity)] :
           capacity \in {WorkplaceCapacity(inp)}} : TRUE

InitEqChar ==
    /\ Constructed
    /\ sweep = NoSweep

\* EVChargerEquityEvaluationwEqChar(df_data, df_commute_data, df_vkt_data)
ConstructEqChar ==
    /\ ~eqchar.constructed
    /\ \E inp \in EqCharInputs :
          eqchar' = EVChargerEquityEvaluationwEqChar_init(inp)
    /\ UNCHANGED <<opt, pc, args, m, outcome, ret, exc, files, sweep, evaluator, ev,
                   disparity, cb>>

\* the caller takes the object or the exception
EqCharReturn ==
    /\ eqchar.constructed
    /\ eqchar' = NoEqChar
    /\ UNCHANGED <<opt, pc, args, m, outcome, ret, exc, files, sweep, evaluator, ev,
                   disparity, cb>>

NextEqChar ==
    \/ ConstructEqChar
    \/ EqCharReturn

SpecEqChar == InitEqChar /\ [][NextEqChar]_vars

(***************************************************************************)
(* An optimizer constructed with an exclusivity factor outside [0, 1]      *)
(***************************************************************************)
\* EV_Opt(df1, df2, df3, output_dir, ex_factor) with ex_factor = 3/2 or -1/2
FactorConfigs == {<<RawC, Rat(3, 2)>>, <<RawC, Rat(0 - 1, 2)>>}

InitFactor ==
    /\ \E c \in FactorConfigs :
          /\ opt = EV_Opt_init(ProcessDemoData(c[1]), OutputDir, c[2])
          /\ evaluator = EVChargerEquityEvaluation_init(ProcessDemoData(c[1]))
    /\ ev = NoEval
    /\ disparity = NoDisparity
    /\ cb = NoSearch
    /\ eqchar = NoEqChar
    /\ pc = "idle"
    /\ args = NoArgs
    /\ m = NoModel
    /\ outcome = NoOutcome
    /\ ret = None
    /\ exc = "none"
    /\ files = {}
    /\ sweep = NoSweep

SpecFactor == InitFactor /\ [][Next]_vars

(***************************************************************************)
(* Properties                                                              *)
(***************************************************************************)
\* the weight lies in [0, 1]
WeightInRange(w) == 0 <= w.num /\ w.num <= WDen

\* the two names and the attribute of a call are recognised by the builder
NamesRecognised(a) ==
    /\ a.equity_indicator \in
          {"char_capacity_per_capita", "char_capacity_per_car", "char_capacity_per_VKT_out"}
    /\ a.demographic_group \in
          {"income_level", "mud_level", "employment_level", "major_ethnicity"}

\* the call is past get_equity_objective, or was thrown out on the way
PastBuilder == pc \in {"solve", "unpack", "returned", "raised"}

\* the builder went through: the objective of the model is set
BuilderAccepted == m.exists /\ m.objective # None

\* the builder rejected the call with the error class e
BuilderRejected(e) == pc = "raised" /\ exc = e /\ m.objective = None

\* C1: when the solver reports the model infeasible, optimization writes the
\* infeasibility report and hands a sentinel back to its caller without
\* raising an exception
C1_InfeasibleReturnsSentinel ==
    (outcome.status = "INFEASIBLE" /\ pc \in {"returned", "raised"}) =>
        (pc = "returned" /\ exc = "none" /\ IlpFile \in files)

\* C2: an infeasible run for one tuple never stops the sweep
C2_SweepContinuesAfterInfeasible ==
    (sweep.on /\ outcome.status = "INFEASIBLE") => sweep.at # "crashed"

\* C3: in every feasible solution 0 <= x[z] <= max_add_capacity for every
\* zone and the sum of x over the zones is <= max_add_capacity
C3_BudgetRespected ==
    outcome.SolCount = 1 =>
        /\ \A z \in 1..opt.n_ct :
              0 <= outcome.sol.x[z] /\ outcome.sol.x[z] <= args.max_add_capacity
        /\ ISum(outcome.sol.x) <= args.max_add_capacity

\* a solution that spends the whole budget on more than one zone
C3_Witness ==
    /\ outcome.SolCount = 1
    /\ args.max_add_capacity = MaxBudget
    /\ ISum(outcome.sol.x) = MaxBudget
    /\ \E z \in 1..opt.n_ct : 0 < outcome.sol.x[z] /\ outcome.sol.x[z] < MaxBudget

\* an argument the builder does not accept
InvalidArgument(a) ==
    \/ ~NamesRecognised(a)
    \/ a.disparity_index \notin
          {"var", "coeff_of_var", "mean_abs_dev", "relative_mean_abs_dev", "gini_coefficient"}
    \/ ~WeightInRange(a.multi_obj_bet_weight)

\* C4: a call with an invalid argument is rejected before the solver model
\* is created and before any variable or constraint is added to it
C4_RejectedBeforeConstruction ==
    (pc \notin {"idle", "evaluated"} /\ InvalidArgument(args)) =>
        (~m.exists /\ m.vars = <<>> /\ m.constrs = <<>>)

\* the builder accepts exactly the index names in S (the other arguments valid)
IndexNamesAccepted(S) ==
    (PastBuilder /\ NamesRecognised(args) /\ WeightInRange(args.multi_obj_bet_weight)
       /\ args.multi_obj_bet_weight.float) =>
        IF args.disparity_index \in S
        THEN BuilderAccepted /\ exc # "ValueError"
        ELSE BuilderRejected("ValueError")

C6_WeightRejectedAsInvalidArgument ==
    (PastBuilder /\ NamesRecognised(args)
       /\ args.disparity_index \in
            {"var", "coeff_of_var", "mean_abs_dev", "relative_mean_abs_dev",
             "gini_coefficient"}) =>
        IF args.multi_obj_bet_weight.float /\ WeightInRange(args.multi_obj_bet_weight)
        THEN BuilderAccepted
        ELSE BuilderRejected("ValueError")


\* the message of the first test of compute_equity that the arguments fail,
\* the demographic attribute before the indicator before the disparity index
FirstInvalid(ind, grp, idx) ==
    IF grp \notin DemoAttributes THEN "Invalid demongraphic group"
    ELSE IF ind \notin EvalIndicators THEN "Invalid equity indicator"
    ELSE IF idx \notin EvalIndices THEN "Invalid disparity index"
    ELSE ""

\* C7: compute_equity returns a result only when the demographic attribute,
\* the indicator and the disparity index are all recognised; otherwise it
\* fails with an invalid-argument error before computing anything, the
\* demographic attribute tested first, then the indicator, then the index
C7_EvaluatorValidationOrder ==
    ev.called =>
        /\ ev.result.exc \in {"none", "ValueError"}
        /\ ev.result.exc = "none" <=>
              /\ ev.demographic_group \in DemoAttributes
              /\ ev.equity_indicator \in EvalIndicators
              /\ ev.disparity_index \in EvalIndices
        /\ ev.result.msg =
              FirstInvalid(ev.equity_indicator, ev.demographic_group, ev.disparity_index)
        /\ ev.result.exc = "ValueError" =>
              ev.result.intra = <<>> /\ ev.result.group_ratio = <<>>
        /\ ev.result.exc = "none" =>
              Len(ev.result.intra) = Len(groupby(evaluator.df1, ev.demographic_group))

\* a call with all three arguments unrecognised fails on the attribute
C7_Witness ==
    /\ ev.called
    /\ ev.demographic_group \notin DemoAttributes
    /\ ev.equity_indicator \notin EvalIndicators
    /\ ev.disparity_index \notin EvalIndices
    /\ ev.result.exc = "ValueError"
    /\ ev.result.msg = "Invalid demongraphic group"

\* the entries of the vector v are pairwise different
Distinct(v) == \A i, j \in 1..Len(v) : i # j => v[i] # v[j]

\* the Evaluator's group value is sum of numerators / sum of denominators
EvaluatorGroupIsRatioOfSums ==
    (ev.called /\ ev.result.exc = "none") =>
        \A g \in 1..Len(ev.result.group_ratio) :
            \E idx \in {groupby(evaluator.df1, ev.demographic_group)[g]} :
                RMul(ev.result.group_ratio[g],
                     RInt(GroupSum(DenominatorCol(evaluator, ev.equity_indicator), idx)))
                  = RInt(GroupSum(NumeratorCol(evaluator, ev.equity_indicator), idx))

\* the optimizer's group value is sum of char_eq / sum of normalisers
OptimizerGroupIsRatioOfSums ==
    outcome.SolCount = 1 =>
        \A g \in 1..Len(outcome.sol.val) :
            \E idx \in {demo_category_list(opt.df1, args.demographic_group)[g]} :
                RMul(outcome.sol.val[g],
                     RInt(GroupSum(Normaliser(opt, args.equity_indicator), idx)))
                  = RSum(Pick(outcome.sol.char_eq, idx))

\* on every group of the Evaluator whose number of zones is in Sizes, whose
\* denominators are pairwise unequal and whose per-zone ratios are pairwise
\* unequal, the group value differs from the mean of the per-zone ratios
GroupDiffersFromMeanOfRatios(Sizes) ==
    (ev.called /\ ev.result.exc = "none") =>
        \A g \in 1..Len(ev.result.group_ratio) :
            \E idx \in {groupby(evaluator.df1, ev.demographic_group)[g]} :
                (/\ Len(idx) \in Sizes
                 /\ Distinct(Pick(DenominatorCol(evaluator, ev.equity_indicator), idx))
                 /\ Distinct(Pick(IndicatorCol(evaluator, ev.equity_indicator), idx)))
                => ev.result.group_ratio[g]
                     # RMean(Pick(IndicatorCol(evaluator, ev.equity_indicator), idx))

\* C8: the group value used for inter-group disparity, in compute_equity and
\* in compute_group_val, is the sum of the group's numerators divided by the
\* sum of its denominators, and it differs from the mean of the per-zone
\* ratios on a group whose zones have unequal denominators and unequal ratios
C8_RatioOfSumsAlwaysDiffers ==
    /\ EvaluatorGroupIsRatioOfSums
    /\ OptimizerGroupIsRatioOfSums
    /\ GroupDiffersFromMeanOfRatios(2..evaluator.n)

\* C8 (amended): the group value is the sum of the numerators divided by the
\* sum of the denominators in both places, and it differs from the mean of the
\* per-zone ratios on every group of two zones with unequal denominators and
\* unequal ratios
C8_RatioOfSumsDiffersOnPairs ==
    /\ EvaluatorGroupIsRatioOfSums
    /\ OptimizerGroupIsRatioOfSums
    /\ GroupDiffersFromMeanOfRatios({2})

\* a group of two zones with unequal denominators and unequal ratios was
\* aggregated by compute_equity
C8_Witness ==
    /\ ev.called
    /\ ev.result.exc = "none"
    /\ \E g \in 1..Len(ev.result.group_ratio) :
          \E idx \in {groupby(evaluator.df1, ev.demographic_group)[g]} :
              /\ Len(idx) = 2
              /\ Distinct(Pick(DenominatorCol(evaluator, ev.equity_indicator), idx))
              /\ Distinct(Pick(IndicatorCol(evaluator, ev.equity_indicator), idx))
              /\ ev.result.group_ratio[g] # NaN

\* C9: the minimized objective is
\*   between_weight * between_disparity + (1 - between_weight) * within_disparity;
\* with between_weight = 1 it is the between-group term alone and with
\* between_weight = 0 the within-group term alone
C9_WeightedObjective ==
    /\ BuilderAccepted =>
          /\ m.objective.between = Rat(args.multi_obj_bet_weight.num, WDen)
          /\ m.objective.within = RSub(RInt(1), Rat(args.multi_obj_bet_weight.num, WDen))
          /\ args.multi_obj_bet_weight.num = WDen => m.objective.within = RZero
          /\ args.multi_obj_bet_weight.num = 0 => m.objective.between = RZero
    /\ (ret.kind = "pair" /\ IsRational(args.disparity_index)) =>
          \E w \in {Rat(args.multi_obj_bet_weight.num, WDen)} :
              /\ ret.sol1.objective_value =
                    RAdd(RMul(w, ret.sol0.obj_val_between),
                         RMul(RSub(RInt(1), w), ret.sol0.obj_val_within))
              /\ w = RInt(1) => ret.sol1.objective_value = ret.sol0.obj_val_between
              /\ w = RZero => ret.sol1.objective_value = ret.sol0.obj_val_within

\* a solution returned for between_weight = 1 whose two terms differ
C9_Witness ==
    /\ pc = "returned"
    /\ ret.kind = "pair"
    /\ IsRational(args.disparity_index)
    /\ args.multi_obj_bet_weight.num = WDen
    /\ RLt(RZero, ret.sol0.obj_val_within)
    /\ ret.sol0.obj_val_between # ret.sol0.obj_val_within
    /\ ret.sol1.objective_value = ret.sol0.obj_val_between

\* work_popu[j] is the column sum of the flow matrix and positive for every j
WorkPopuIsColumnSum ==
    \A j \in 1..opt.n_ct :
        opt.work_popu[j] = ColSums(opt.n_trip_ij)[j] /\ opt.work_popu[j] > 0

\* C10: when work_popu[j] is the positive column sum of the flow matrix for
\* every j, every feasible solution has
\*   sum over z of (char_eq[z] - total_char_capacity[z])
\*     = (1 - exclusivity_factor) * sum over j of x[j],
\* which with exclusivity_factor = 0 is the added capacity itself
C10_RedistributionConservesCapacity ==
    (outcome.SolCount = 1 /\ WorkPopuIsColumnSum) =>
        \E moved \in {RSub(RSum(outcome.sol.char_eq),
                           RInt(ISum(opt.total_char_capacity)))} :
            /\ moved = RMul(RSub(RInt(1), opt.exclusivity_factor),
                            RInt(ISum(outcome.sol.x)))
            /\ opt.exclusivity_factor = RZero => moved = RInt(ISum(outcome.sol.x))

\* capacity was added at a workplace that draws workers from another zone,
\* with exclusivity_factor = 0
C10_Witness ==
    /\ outcome.SolCount = 1
    /\ WorkPopuIsColumnSum
    /\ opt.exclusivity_factor = RZero
    /\ \E i, j \in 1..opt.n_ct :
          i # j /\ opt.n_trip_ij[i][j] > 0 /\ opt.n_trip_ij[j][i] = 0
                /\ outcome.sol.x[j] > 0


\* the end-to-end scenario in units of 50: populations 2, 4, 2, existing
\* capacities 1, 0, 1, identity-like flow, groups {zone 1, zone 3} and {zone 2}
ScenarioData ==
    /\ opt.popu_ct = <<2, 4, 2>>
    /\ opt.total_char_capacity = <<1, 0, 1>>
    /\ opt.n_trip_ij = <<<<2, 0, 0>>, <<0, 4, 0>>, <<0, 0, 2>>>>
    /\ opt.work_popu = opt.popu_ct
    /\ opt.exclusivity_factor = RZero
    /\ demo_category_list(opt.df1, "income_level") = <<<<1, 3>>, <<2>>>>

\* ... called with char_capacity_per_capita, mean_abs_dev, between_weight = 1
\* and max_add_capacity = 2 (100 in units of 50)
ScenarioCall ==
    /\ ScenarioData
    /\ args = [equity_indicator |-> "char_capacity_per_capita",
               demographic_group |-> "income_level",
               disparity_index |-> "mean_abs_dev",
               max_add_capacity |-> 2,
               multi_obj_bet_weight |-> [float |-> TRUE, num |-> WDen]]

\* C11: in the end-to-end scenario every optimal solution of the built model
\* puts the whole budget at zone 2 and has between-group disparity 0
C11_ScenarioOptimum ==
    (ScenarioCall /\ outcome.status = "OPTIMAL") =>
        /\ outcome.sol.x = <<0, 2, 0>>
        /\ outcome.sol.between = RZero
        /\ outcome.sol.val[1] = outcome.sol.val[2]
        /\ pc = "returned" =>
              /\ ret.sol1.charger_capacity_wp = <<RInt(0), RInt(2), RInt(0)>>
              /\ ret.sol0.obj_val_between = RZero
              /\ ret.sol1.objective_value = RZero

\* the scenario was solved to optimality and its result returned
C11_Witness ==
    /\ ScenarioCall
    /\ outcome.status = "OPTIMAL"
    /\ pc = "returned"
    /\ ret.sol1.charger_capacity_wp = <<RInt(0), RInt(2), RInt(0)>>


\* compute_disparity was called with a recognised index
DisparityCalled == disparity.called /\ disparity.disparity_index \in EvalIndices

\* all elements of the vector of the call are equal
EqualElements == \A i \in 1..Len(disparity.data) : disparity.data[i] = disparity.data[1]

NumPositive == Cardinality({i \in 1..Len(disparity.data) : RLt(RZero, disparity.data[i])})

\* C13: gini_coefficient of a vector of length n with one positive element
\* and n-1 zeros is exactly 1 - 1/n, and no nonnegative vector of length n
\* with positive sum gives a larger value or a negative one
C13_GiniConcentrated ==
    (disparity.called /\ disparity.disparity_index = "gini_coefficient"
       /\ NumPositive >= 1) =>
        \E top \in {Rat(Len(disparity.data) - 1, Len(disparity.data))} :
            /\ RLe(RZero, disparity.result)
            /\ RLe(disparity.result, top)
            /\ NumPositive = 1 => disparity.result = top

\* the gini_coefficient of a longest vector whose whole mass sits in its
\* first element
C13_Witness ==
    /\ disparity.called
    /\ disparity.disparity_index = "gini_coefficient"
    /\ Len(disparity.data) = MaxLen
    /\ NumPositive = 1
    /\ RLt(RZero, disparity.data[1])
    /\ disparity.result = Rat(MaxLen - 1, MaxLen)

ZeroDenominator ==
    /\ disparity.called
    /\ disparity.disparity_index \in
          {"relative_mean_abs_dev", "gini_coefficient", "lorenz_curve"}
    /\ RSum(disparity.data) = RZero

\* C15: whenever a denominator is zero compute_disparity fails with a
\* division-by-zero error instead of returning NaN or an infinite value
C15_ZeroDenominatorRaises ==
    ZeroDenominator =>
        /\ Len(disparity.result) = 1
        /\ disparity.result[1] = "ZeroDivisionError"


\* the returned record is the one solve gives for the same incumbent when the
\* solver has proven it optimal
SameAsProvenOptimal == ret = solve(opt, m, [outcome EXCEPT !.status = "OPTIMAL"]).ret

\* C16: when a solve stops on the time limit or on the soft stop with a
\* feasible incumbent, the incumbent is returned and the result record marks
\* it as non-optimal, so that it can be told apart from a proven optimum
C16_NonOptimalIsFlagged ==
    (pc = "returned" /\ outcome.status \in {"TIME_LIMIT", "INTERRUPTED"}) =>
        /\ ret.kind = "pair"
        /\ \A i \in 1..opt.n_ct : ret.sol1.charger_capacity_wp[i] = RInt(outcome.sol.x[i])
        /\ ~SameAsProvenOptimal

\* C17: every call of solve ends in one of the outcomes optimal, time limit
\* reached (by the limit or the soft stop) or infeasible, and reads variable
\* values only when the solver holds a feasible incumbent, so that it never
\* fails while extracting a solution
C17_SolveNeverFailsExtracting ==
    outcome.status # "LOADED" =>
        /\ outcome.status \in {"OPTIMAL", "TIME_LIMIT", "INTERRUPTED", "INFEASIBLE"}
        /\ exc # "AttributeError"
        /\ ret.kind = "pair" => outcome.SolCount = 1
        /\ outcome.SolCount = 0 => ret = None

\* the condition under which the callback is to stop the search
SoftStopCondition ==
    /\ cb.where = "MIP"
    /\ cb.Runtime > softlimit
    /\ RLt(IF cb.MIP_OBJBST = 0 THEN RZero
           ELSE Rat(Abs(cb.MIP_OBJBST - cb.MIP_OBJBND), cb.MIP_OBJBST),
           Rat(1, 20))

\* C18: the callback requests termination exactly when it is invoked at a MIP
\* progress point with runtime > 20 s and gap |best - bound| / best < 0.05
\* (gap 0 when best = 0); never while runtime <= 20 s or gap >= 0.05, never at
\* another callback point
C18_SoftStopExactly ==
    cb.invoked =>
        /\ cb.terminated <=> SoftStopCondition
        /\ cb.Runtime <= 20 => ~cb.terminated
        /\ cb.where # "MIP" => ~cb.terminated

\* the callback stopped a search with gap 0.04 one second after the soft limit
C18_Witness ==
    /\ cb.invoked
    /\ cb.where = "MIP"
    /\ cb.Runtime = softlimit + 1
    /\ cb.MIP_OBJBST = 100 /\ cb.MIP_OBJBND = 96
    /\ cb.terminated

\* C19: for every zone position i the entries charger_capacity_wp[i],
\* equivalent_char_capacity[i] and equity_xi[i] of the result are the values
\* of x[i], char_eq[i] and xi[i] of the same zone, whatever auxiliary
\* variables the model contains
C19_ResultAlignedToZones ==
    ret.kind = "pair" =>
        /\ Len(ret.sol1.charger_capacity_wp) = opt.n_ct
        /\ Len(ret.sol1.equivalent_char_capacity) = opt.n_ct
        /\ Len(ret.sol1.equity_xi) = opt.n_ct
        /\ \A i \in 1..opt.n_ct :
              /\ m.vars[i] = <<"charger_capacity_wp", i - 1>>
              /\ m.vars[i + opt.n_ct] = <<"equvalent_char_capacity", i - 1>>
              /\ m.vars[i + 2 * opt.n_ct] = <<"equity_indicator", i - 1>>
              /\ ret.sol1.charger_capacity_wp[i] = RInt(outcome.sol.x[i])
              /\ ret.sol1.equivalent_char_capacity[i] = outcome.sol.char_eq[i]
              /\ ret.sol1.equity_xi[i] = outcome.sol.xi[i]

\* a result of a model with pairwise auxiliaries and several groups, in
\* which the three sequences differ from each other and between zones
C19_Witness ==
    /\ ret.kind = "pair"
    /\ args.disparity_index = "gini_coefficient"
    /\ Len(outcome.sol.val) >= 2
    /\ Len(m.vars) > 3 * opt.n_ct + 2
    /\ outcome.sol.x[1] # outcome.sol.x[opt.n_ct]
    /\ ret.sol1.equivalent_char_capacity # ret.sol1.charger_capacity_wp
    /\ ret.sol1.equity_xi # ret.sol1.equivalent_char_capacity

\* the name of the file embeds the six parameter values of the run
EmbedsParameters(f, a, ex_factor) ==
    /\ Len(f) = 7
    /\ f[2] = a.equity_indicator
    /\ f[3] = a.demographic_group
    /\ f[4] = a.disparity_index
    /\ f[5] = a.max_add_capacity
    /\ f[6] = a.multi_obj_bet_weight.num
    /\ f[7] = ex_factor

\* C20: every file a run writes has a name that embeds all the parameter
\* values of the run, so that two runs with different parameter tuples never
\* write to the same path
C20_FileNamesEmbedParameters ==
    sweep.on =>
        \A f \in files :
            \/ f = ManifestFile
            \/ \E k \in 1..Len(sweep.ran) :
                  EmbedsParameters(f, sweep.ran[k], opt.exclusivity_factor)



\* the exclusivity factor of the optimizer lies in [0, 1]
FactorInRange == RLe(RZero, opt.exclusivity_factor) /\ RLe(opt.exclusivity_factor, RInt(1))

\* C21: an exclusivity_factor outside [0, 1] is rejected with an
\* invalid-argument error when the optimizer is constructed or run; no model
\* is built or solved with such a factor
C21_FactorOutOfRangeRejected ==
    ~FactorInRange =>
        /\ ~m.exists
        /\ outcome.status = "LOADED"

\* the model optimization(...) hands to solve, as a function of the object and
\* of the arguments alone: lines 99-130 run on a new gp.Model
BuiltModel(o, a) ==
    LET m1 == addVars(gp_Model, o.n_ct, "charger_capacity_wp")
        m2 == addVars(m1, o.n_ct, "equvalent_char_capacity")
        m3 == addVars(m2, o.n_ct, "equity_indicator")
        m4 == addConstrs(m3, o.n_ct, "char_cap_l1")
        m5 == addConstr(m4, "char_cap_l2")
        m6 == addConstrs(m5, o.n_ct, "char_capacity_each_ct")
        r1 == compute_xi_val(o, m6, a.equity_indicator)
        r2 == compute_group_val(o, r1.m, a.equity_indicator, a.demographic_group)
        r3 == get_equity_objective(o, r2.m, a.disparity_index, a.demographic_group,
                                   a.multi_obj_bet_weight)
    IN  r3.m

\* the arguments of the running call are those of the current tuple of the sweep
\* and the model handed to solve depends on the object and these arguments only
RunIndependentOfHistory ==
    (sweep.on /\ sweep.at = "calling") =>
        /\ args = TupleAt(sweep.lists, sweep.pos)
        /\ pc = "add_vars" => m = gp_Model
        /\ pc \in {"solve", "unpack", "returned"} => m = BuiltModel(opt, args)

\* C22: optimization leaves the attributes and the tables of the EV_Opt object
\* unchanged and builds a new model on every call, so in the sweep, which
\* reuses one object and one kwargs dictionary, the model of a tuple is the
\* same whatever tuples were run before it
C22_CallsLeaveObjectUnchanged ==
    /\ []RunIndependentOfHistory
    /\ [][opt' = opt]_vars

\* a second tuple of the sweep has its model built, after a first run returned
C22_Witness ==
    /\ sweep.on /\ sweep.at = "calling"
    /\ Len(sweep.ran) >= 2
    /\ pc = "solve"
    /\ m = BuiltModel(opt, args)

\* the call has a solution in hand and the index is one the model evaluates
HasSolution ==
    /\ ~sweep.on
    /\ pc \in {"unpack", "returned"}
    /\ outcome.SolCount = 1
    /\ IsRational(args.disparity_index)

\* the disparity of every group, each from the xi of the zones of that group
PerGroupDisparity ==
    LET val_group == demo_category_list(opt.df1, args.demographic_group)
    IN  [g \in 1..Len(val_group) |->
            LinValue(args.disparity_index, Pick(outcome.sol.xi, val_group[g]))]

\* n_group times the within term is the sum of the per-group disparities: every
\* group has coefficient 1/n_group (an index with free auxiliaries: at least)
WithinIsPlainAverage ==
    \E d \in {PerGroupDisparity} :
        \E lhs \in {RMul(RInt(Len(d)), outcome.sol.within)} :
            IF HasSlack(args.disparity_index)
            THEN RLe(RSum(d), lhs)
            ELSE lhs = RSum(d)

\* C23: the within-group term is the plain average over the groups of the
\* per-group disparity, each computed from the xi of that group's zones only:
\* every group has coefficient 1/n_group whatever its number of zones
C23_WithinIsPlainAverage == HasSolution => WithinIsPlainAverage

\* a solution for groups of different sizes and different disparities, where
\* the plain average is not the size-weighted one
C23_Witness ==
    /\ HasSolution
    /\ ~HasSlack(args.disparity_index)
    /\ \E val_group \in {demo_category_list(opt.df1, args.demographic_group)} :
          \E g, h \in 1..Len(val_group) : Len(val_group[g]) # Len(val_group[h])
    /\ \E d \in {PerGroupDisparity} : \E g, h \in 1..Len(d) : d[g] # d[h]
    /\ WithinIsPlainAverage

\* the zones listed in the index sequence s
ZonesOf(s) == {s[k] : k \in 1..Len(s)}

\* number of variables of the model m0 created under the name name
NumVars(m0, name) == Cardinality({k \in 1..Len(m0.vars) : m0.vars[k][1] = name})

\* the index sets are nonempty, list no zone twice, are pairwise disjoint and
\* together cover the zones 1..n
IsPartition(val_group, n) ==
    /\ \A g \in 1..Len(val_group) :
          /\ val_group[g] # <<>>
          /\ Cardinality(ZonesOf(val_group[g])) = Len(val_group[g])
    /\ \A g, h \in 1..Len(val_group) :
          g # h => ZonesOf(val_group[g]) \cap ZonesOf(val_group[h]) = {}
    /\ UNION {ZonesOf(val_group[g]) : g \in 1..Len(val_group)} = 1..n

\* both group functions have run on the model of the current call
GroupsBuilt == ~sweep.on /\ pc = "solve"

\* C24: for a recognized attribute the zone index sets of compute_group_val and
\* of get_within_disparity_objective are nonempty, pairwise disjoint and cover
\* all n_ct zones, and both functions make the same groups in the same order
\* (one group value and one within-group term per group)
C24_GroupsPartitionZones ==
    GroupsBuilt =>
        \E val_group \in {demo_category_list(opt.df1, args.demographic_group)} :
            /\ IsPartition(val_group, opt.n_ct)
            /\ NumVars(m, "indicator_group_value") = Len(val_group)
            /\ NumVars(m, "within_group_disparity") = Len(val_group)

\* a built model for an attribute with two groups, one of them the
\* non-adjacent zones 1 and 3
C24_Witness ==
    /\ GroupsBuilt
    /\ demo_category_list(opt.df1, args.demographic_group) = <<(<<1, 3>>), (<<2>>)>>
    /\ NumVars(m, "within_group_disparity") = 2

\* solution0 = {var.varName: var.X for var in m.getVars()}: the keys of the
\* dictionary are the names that occur among the variables of the model
Solution0Keys(m0) == {m0.vars[k] : k \in 1..Len(m0.vars)}

\* C25: the name-to-value mapping returned by solve has exactly one entry per
\* variable of the model: no two variables of a built model share a name, for
\* every disparity index and any number of groups
C25_MappingComplete ==
    (~sweep.on /\ pc \in {"solve", "unpack", "returned"}) =>
        Cardinality(Solution0Keys(m)) = Len(m.vars)

\* C26: in every optimal solution, for every weight in [0, 1] including 0 and
\* 1, the recorded obj_val_between equals the disparity index evaluated on the
\* group values of the solution, the recorded obj_val_within equals the average
\* over the groups of the index on each group's xi, and the objective value is
\* weight * between + (1 - weight) * within of the recorded values
C26_RecordedTermsAreIndexValues ==
    (HasSolution /\ pc = "returned" /\ outcome.status = "OPTIMAL") =>
        /\ ret.sol0.obj_val_between = LinValue(args.disparity_index, outcome.sol.val)
        /\ \E d \in {PerGroupDisparity} :
              ret.sol0.obj_val_within = RDiv(RSum(d), RInt(Len(d)))
        /\ ret.sol1.objective_value =
              RAdd(RMul(Rat(args.multi_obj_bet_weight.num, WDen), ret.sol0.obj_val_between),
                   RMul(Rat(WDen - args.multi_obj_bet_weight.num, WDen),
                        ret.sol0.obj_val_within))

\* compute_disparity was called for the Gini coefficient of a vector with a
\* positive sum
GiniCalled ==
    /\ disparity.called
    /\ disparity.disparity_index = "gini_coefficient"
    /\ RLt(RZero, RSum(disparity.data))

\* C27: for a nonnegative vector v with positive sum, the Gini term of
\* gini_equity_index with every pairwise auxiliary at its lower bound (the sum
\* over all ordered pairs of |v_i - v_j|, divided by 2n, times 1/sum(v)) equals
\* compute_disparity('gini_coefficient', v) of the evaluator
C27_ModelGiniEqualsEvaluatorGini ==
    GiniCalled => LinValue("gini_coefficient", disparity.data) = disparity.result

\* an unsorted vector of three different values, Gini coefficient 2/9 both ways
C27_Witness ==
    /\ GiniCalled
    /\ disparity.data = <<RInt(3), RInt(1), RInt(2)>>
    /\ disparity.result = Rat(2, 9)
    /\ LinValue("gini_coefficient", disparity.data) = Rat(2, 9)

\* m.optimize has ended for a call with max_add_capacity = 0
ZeroBudgetSolved ==
    /\ ~sweep.on
    /\ pc \in {"unpack", "returned", "raised"}
    /\ outcome.status # "LOADED"
    /\ args.max_add_capacity = 0

\* nothing is added anywhere and char_eq is the existing capacity
NothingAdded ==
    /\ \A z \in 1..opt.n_ct : outcome.sol.x[z] = 0
    /\ \A z \in 1..opt.n_ct : outcome.sol.char_eq[z] = RInt(opt.total_char_capacity[z])

\* weight * inter + (1 - weight) * mean(intra), with (inter, intra) from
\* compute_equity of the evaluator on the same data
EvaluatorObjective ==
    CHOOSE r \in
        {RAdd(RMul(Rat(args.multi_obj_bet_weight.num, WDen), e.inter),
              RMul(Rat(WDen - args.multi_obj_bet_weight.num, WDen), RMean(e.intra))) :
           e \in {compute_equity(evaluator, args.equity_indicator, args.demographic_group,
                                  args.disparity_index)}} : TRUE

\* the optimal objective for mean_abs_dev is the evaluator's weighted value
OptimumIsEvaluatorValue ==
    (args.disparity_index = "mean_abs_dev" /\ outcome.status = "OPTIMAL") =>
        ObjectiveAt(m.objective, outcome.sol) = EvaluatorObjective

\* C28 (as stated): with max_add_capacity = 0 the model is feasible, every
\* solution has x = 0 and char_eq = total_char_capacity, and for mean_abs_dev
\* the optimal objective is weight * inter + (1 - weight) * mean(intra) of
\* compute_equity
C28_ZeroBudgetAlwaysFeasible ==
    ZeroBudgetSolved =>
        /\ outcome.status # "INFEASIBLE"
        /\ outcome.SolCount = 1 => NothingAdded
        /\ OptimumIsEvaluatorValue

\* C28 (amended): with max_add_capacity = 0 the model is feasible for var,
\* mean_abs_dev and relative_mean_abs_dev; for every index every solution has
\* x = 0 and char_eq = total_char_capacity, and for mean_abs_dev the optimal
\* objective is weight * inter + (1 - weight) * mean(intra) of compute_equity
C28_ZeroBudgetBaseline ==
    ZeroBudgetSolved =>
        /\ args.disparity_index \in {"var", "mean_abs_dev", "relative_mean_abs_dev"}
              => outcome.status # "INFEASIBLE"
        /\ outcome.SolCount = 1 => NothingAdded
        /\ OptimumIsEvaluatorValue

\* an optimal mean_abs_dev solution at budget 0 with a weight strictly between
\* 0 and 1, unequal group values and a positive objective equal to the
\* evaluator's value
C28_Witness ==
    /\ ZeroBudgetSolved
    /\ args.disparity_index = "mean_abs_dev"
    /\ outcome.status = "OPTIMAL"
    /\ args.multi_obj_bet_weight.num \notin {0, WDen}
    /\ NothingAdded
    /\ RLt(RZero, outcome.sol.between)
    /\ ObjectiveAt(m.objective, outcome.sol) = EvaluatorObjective

\* the runs made so far are the first tuples of the product in nested-loop
\* order, after the manifest, each but the last with its result file saved
SweepInOrder ==
    /\ Len(sweep.ran) >= 1 => ManifestFile \in files
    /\ \A k \in 1..Len(sweep.ran) : sweep.ran[k] = TupleAt(sweep.lists, k)
    /\ \A k \in 1..(Len(sweep.ran) - 1) :
          ResultFile(sweep.ran[k], opt.exclusivity_factor) \in files

\* the script has ended, by exhausting the loops or by an exception
SweepStopped == sweep.at \in {"done", "crashed"}

\* C29: the sweep writes the manifest before the first run, runs optimization
\* exactly once for each tuple of the product in nested-loop order, saves a
\* run's result file before the next run starts, and, every solve having
\* terminated, ends after as many runs as the product has tuples
C29_SweepRunsEveryTupleOnce ==
    sweep.on =>
        /\ SweepInOrder
        /\ SweepStopped =>
              /\ Len(sweep.ran) = NTuples(sweep.lists)
              /\ \A k \in 1..Len(sweep.ran) :
                    ResultFile(sweep.ran[k], opt.exclusivity_factor) \in files

\* C30: constructing EVChargerEquityEvaluationwEqChar succeeds for every
\* index-aligned input with at least one zone and positive column sums of the
\* flow matrix, whatever the number of zones, and afterwards the equivalent
\* workplace capacities sum over the residence zones to the total workplace
\* capacity
C30_ConstructionSucceeds ==
    eqchar.constructed =>
        /\ eqchar.exc = "none"
        /\ RSum(eqchar.eq_workplace_char_capacity_kW)
              = RInt(ISum(eqchar.workplace_char_capacity_kW))

====
